---- MODULE Spec2Model ----
(***************************************************************************)
(* The RIFT tree-walking evaluator (src/RIFT/src/interpreter.py) and its   *)
(* scope chain (src/RIFT/src/environment.py) as a state machine.           *)
(*                                                                         *)
(* The program being interpreted is not fixed: every step the environment  *)
(* picks the next statement of the block that is currently being executed  *)
(* (or closes that block), so the behaviours of the machine are the        *)
(* executions of all programs over the small vocabulary below.  `stack`    *)
(* is the host call stack of the handlers that are in the middle of        *)
(* evaluate(body): one frame per active _eval_IfStatement,                 *)
(* _eval_WhileStatement, _eval_RepeatStatement, _eval_CheckStatement,      *)
(* _eval_TryStatement, _call_function, _call_lambda, _call_bound_method.   *)
(* `exc` is the host exception that is unwinding that stack.               *)
(*                                                                         *)
(* The handlers that evaluate one expression without running a block       *)
(* (pattern matching, pipeline stages, member and index access, binary     *)
(* operators, host calls, the lexer's operators) are applied to `ast_node`,*)
(* the expression under evaluation together with the objects it refers     *)
(* to, which the initial state draws from a bounded set.  `modules` is     *)
(* Interpreter.modules, `loads` counts the runs of the module loaders.     *)
(* `objects` holds the objects of the standard library and of the server   *)
(* that a program has made (promises, a mutex, an emitter, a cache, the    *)
(* server), `threads` the host threads that run beside the evaluator.      *)
(***************************************************************************)
EXTENDS Integers, Sequences, FiniteSets, TLC

VARIABLES envs, current_env, functions, stack, exc, result, steps, hist,
          ast_node, modules, loads, objects, threads

vars == <<envs, current_env, functions, stack, exc, result, steps, hist,
          ast_node, modules, loads, objects, threads>>

(***************************************************************************)
(* Bounds of the exploration.                                              *)
(***************************************************************************)
MaxSteps == 4
MaxDepth == 3
MaxFuncs == 2
MaxIter == 2

(***************************************************************************)
(* Vocabulary of the interpreted programs.                                 *)
(***************************************************************************)
Lits == {0, 1}
Kinds == {"let", "mut", "const"}
Operators == {"=", "+=", "-=", "*=", "/="}

(***************************************************************************)
(* Runtime values.                                                         *)
(***************************************************************************)
NoneV == [t |-> "none", v |-> 0]
IntV(n) == [t |-> "int", v |-> n]
FloatV(n) == [t |-> "float", v |-> n]
TextV(n) == [t |-> "text", v |-> n]
FuncV(i) == [t |-> "RiftFunction", v |-> i]
LambdaV(i) == [t |-> "RiftLambda", v |-> i]
ClassV(i) == [t |-> "RiftClass", v |-> i]
InstanceV(i) == [t |-> "RiftInstance", v |-> i]
BoolV(b) == [t |-> "bool", v |-> IF b THEN 1 ELSE 0]

IsNumber(x) == x.t \in {"int", "float"}

(***************************************************************************)
(* Host exceptions: RIFT errors (subclasses of RiftError), the four        *)
(* control-flow signals, and host errors that are not RiftError.           *)
(***************************************************************************)
NoExc == [kind |-> "none", cls |-> "", value |-> NoneV]
RiftError(cls) == [kind |-> "RiftError", cls |-> cls, value |-> NoneV]
HostError(cls) == [kind |-> "HostError", cls |-> cls, value |-> NoneV]
BreakSignal == [kind |-> "BreakSignal", cls |-> "", value |-> NoneV]
ContinueSignal == [kind |-> "ContinueSignal", cls |-> "", value |-> NoneV]
ReturnSignal(v) == [kind |-> "ReturnSignal", cls |-> "", value |-> v]
YieldSignal(v) == [kind |-> "YieldSignal", cls |-> "", value |-> v]

IsSignal(e) == e.kind \in {"BreakSignal", "ContinueSignal", "ReturnSignal", "YieldSignal"}

\* str(e) of an exception, as bound to the catch variable: the text is
\* identified by the class of the exception it renders.
ErrorText(e) ==
  TextV(CASE e.cls = "RuntimeError" -> 1
          [] e.cls = "NameError" -> 2
          [] e.cls = "AssignmentError" -> 3
          [] e.cls = "TypeError" -> 4
          [] e.cls = "ZeroDivisionError" -> 5
          [] OTHER -> 6)

(***************************************************************************)
(* Environment (environment.py).  `E` is the heap of Environment objects,  *)
(* an Environment is referred to by its index, parent 0 is None.           *)
(***************************************************************************)
Environment(parent, name) ==
  [parent |-> parent, name |-> name, variables |-> <<>>,
   immutables |-> {}, constants |-> {},
   declared |-> <<>>]   \* ghost: the kind of each name's latest declaration

Bound(E, id, name) == name \in DOMAIN E[id].variables

define(E, id, name, value, mutable, constant) ==
  [E EXCEPT ![id] =
     [@ EXCEPT
        !.variables = [n \in (DOMAIN @) \cup {name} |->
                         IF n = name THEN value ELSE @[n]],
        !.immutables = IF (~mutable) \/ constant THEN @ \cup {name} ELSE @,
        !.constants = IF constant THEN @ \cup {name} ELSE @]]

\* The scope in which get/set find `name`: the nearest one on the parent
\* chain that has it in _variables, 0 when there is none.
RECURSIVE Resolve(_, _, _)
Resolve(E, id, name) ==
  IF id = 0 THEN 0
  ELSE IF Bound(E, id, name) THEN id
  ELSE Resolve(E, E[id].parent, name)

has(E, id, name) == Resolve(E, id, name) # 0

\* get: [ok, value]; ok = FALSE is NameError.
get(E, id, name) ==
  LET at == Resolve(E, id, name) IN
  IF at = 0 THEN [ok |-> FALSE, value |-> NoneV]
  ELSE [ok |-> TRUE, value |-> E[at].variables[name]]

\* set as it would be if the value were stored in the scope the assignment
\* runs in instead of the scope that holds the binding.
set_in_current_scope(E, id, name, value) ==
  LET at == Resolve(E, id, name) IN
  IF at = 0 THEN [err |-> "NameError", envs |-> E]
  ELSE IF name \in E[at].constants THEN [err |-> "AssignmentError", envs |-> E]
  ELSE IF name \in E[at].immutables THEN [err |-> "AssignmentError", envs |-> E]
  ELSE [err |-> "",
        envs |-> [E EXCEPT ![id].variables =
                    [n \in (DOMAIN @) \cup {name} |-> IF n = name THEN value ELSE @[n]]]]

\* set: [err, envs]; err = "" on success, otherwise the class raised.
set(E, id, name, value) ==
  LET at == Resolve(E, id, name) IN
  IF at = 0 THEN [err |-> "NameError", envs |-> E]
  ELSE IF name \in E[at].constants THEN [err |-> "AssignmentError", envs |-> E]
  ELSE IF name \in E[at].immutables THEN [err |-> "AssignmentError", envs |-> E]
  ELSE [err |-> "",
        envs |-> [E EXCEPT ![at].variables = [@ EXCEPT ![name] = value]]]

\* child: the heap with a fresh scope appended; its index is Len(E) + 1.
child(E, parent, name) == Append(E, Environment(parent, name))

\* GlobalEnvironment._setup_builtins and Interpreter._setup_builtins: the
\* constants yes/no/none (the host functions are not used by the programs
\* of this vocabulary).
GlobalEnvironment ==
  LET e0 == <<Environment(0, "global")>>
      e1 == define(e0, 1, "yes", BoolV(TRUE), FALSE, TRUE)
      e2 == define(e1, 1, "no", BoolV(FALSE), FALSE, TRUE)
  IN define(e2, 1, "none", NoneV, FALSE, TRUE)

\* define, with the ghost record of what kind of declaration made the
\* binding: "let" / "mut" / "const" for a VariableDeclaration, "bind" for
\* the immutable bindings the evaluator makes itself (parameters, loop
\* variables, catch names, function and class names).
Declare(E, id, name, value, kind) ==
  LET d == define(E, id, name, value, kind = "mut", kind = "const") IN
  [d EXCEPT ![id].declared = [n \in (DOMAIN @) \cup {name} |->
                                IF n = name THEN kind ELSE @[n]]]

(***************************************************************************)
(* Expressions of the vocabulary that can stand as an ExpressionStatement: *)
(* Identifier name, Assignment name op lit, Call name(lit?) and the method *)
(* call C().m(lit?).                                                       *)
(***************************************************************************)
NoExpr == [node |-> "", name |-> "", op |-> "", lit |-> 0, nargs |-> 0, n |-> 0]
Expr(node, name, op, lit, nargs) ==
  [node |-> node, name |-> name, op |-> op, lit |-> lit, nargs |-> nargs, n |-> 1]

Args(nargs, lit) == IF nargs = 0 THEN <<>> ELSE <<IntV(lit)>>

(***************************************************************************)
(* Frames of the host stack.  kind is the handler, phase the block it is   *)
(* evaluating.  res is the handler's local `result`, pending the exception *)
(* a finally clause re-raises when its block is done.  Ghost fields: vis   *)
(* (names visible when the handler started), decl (names declared by       *)
(* statements inside it), ran (the blocks of a try statement that were     *)
(* evaluated), thrown (the exception that left the try block), last (the   *)
(* last statement evaluated directly in a function body, with the number   *)
(* of times it was evaluated).                                             *)
(***************************************************************************)
Frame(kind, expr) ==
  [kind |-> kind, phase |-> "body", env |-> 0, prev_env |-> 0, res |-> NoneV,
   pending |-> NoExc, fn |-> 0, items |-> <<>>, index |-> 0, index_var |-> "",
   catch |-> FALSE, catch_var |-> "", fin |-> FALSE, expr |-> expr,
   last |-> NoExpr, vis |-> {}, decl |-> {}, ran |-> <<>>, thrown |-> NoExc]

Top(stk) == stk[Len(stk)]
Pop(stk) == SubSeq(stk, 1, Len(stk) - 1)
SetTop(stk, f) == [stk EXCEPT ![Len(stk)] = f]

CallKinds == {"function", "lambda", "method"}
LoopKinds == {"while", "repeat"}
AllNames == {"x", "p", "f", "g", "C", "e", "i", "me", "yes", "no", "none"}

Visible(E, id) == {n \in AllNames : has(E, id, n)}

\* A statement has been evaluated in the block on top of the stack: a
\* function body remembers it as its last statement (expr = NoExpr when it
\* is not an ExpressionStatement).
Note(stk, expr) ==
  IF stk # <<>> /\ Top(stk).kind = "function" /\ Top(stk).phase = "body"
  THEN SetTop(stk, [Top(stk) EXCEPT !.last = expr])
  ELSE stk

Declared(stk, names) ==
  IF stk # <<>> THEN SetTop(stk, [Top(stk) EXCEPT !.decl = @ \cup names]) ELSE stk

(***************************************************************************)
(* The ghost record of the last step.                                      *)
(***************************************************************************)
Hist(op) ==
  [op |-> op, kind |-> "", phase |-> "", names |-> {}, imm |-> FALSE, comb |-> FALSE,
   ran |-> <<>>, thrown |-> NoExc, catch |-> FALSE, fin |-> FALSE,
   how |-> "", last |-> NoExpr, fn |-> 0, env |-> 0,
   sel |-> 0, tried |-> <<>>, guards |-> <<>>, bound |-> {}, args |-> <<>>]

\* The step that ends handler frame f: how is "done" (its block ended),
\* "caught" (it consumed a stop or a give), "next" (it consumed a next and
\* had no further iteration), "raise" (an exception of the block it was
\* evaluating leaves it) or "reraise" (its finally clause is done and
\* re-raises the exception it held).
Exit(f, how) ==
  [Hist("exit") EXCEPT !.kind = f.kind, !.phase = f.phase, !.names = f.decl \ f.vis,
                       !.ran = f.ran, !.thrown = f.thrown, !.catch = f.catch,
                       !.fin = f.fin, !.how = how, !.last = f.last, !.fn = f.fn,
                       !.env = f.env]

\* The handler on top of stk has returned: its statement is noted in the
\* enclosing block, which also inherits the names declared inside.
Leave(stk, expr) ==
  LET f == Top(stk) IN Declared(Note(Pop(stk), expr), f.decl)

\* What a step makes of the state.
Upd(E, cur, stk, x, res, h) ==
  [envs |-> E, current_env |-> cur, stack |-> stk, exc |-> x, result |-> res, hist |-> h]

\* A step of the evaluator proper: the expression under evaluation and the
\* module cache are not its business.
Apply(u) ==
  /\ envs' = u.envs
  /\ current_env' = u.current_env
  /\ stack' = u.stack
  /\ exc' = u.exc
  /\ result' = u.result
  /\ hist' = u.hist
  /\ UNCHANGED <<ast_node, modules, loads, objects, threads>>

\* No expression is singled out.
NoNode == [node |-> ""]

\* Interpreter.__init__ but for the expression under evaluation.
NewInterpreter ==
  /\ envs = GlobalEnvironment
  /\ current_env = 1
  /\ functions = <<>>
  /\ stack = <<>>
  /\ exc = NoExc
  /\ result = NoneV
  /\ steps = 0
  /\ hist = Hist("init")
  /\ modules = <<>>
  /\ loads = <<>>

\* The same with no library object made and no thread started.
Start ==
  /\ NewInterpreter
  /\ objects = <<>>
  /\ threads = <<>>

Init == Start /\ ast_node = NoNode

\* A statement can start: nothing is unwinding, and the statement budget
\* and the nesting budget are not used up.
CanRun ==
  /\ exc = NoExc
  /\ steps < MaxSteps
  /\ (stack # <<>> => Top(stack).phase # "autoret")

CanNest == CanRun /\ Len(stack) < MaxDepth

(***************************************************************************)
(* Simple statements.                                                      *)
(***************************************************************************)
\* _eval_VariableDeclaration: let/mut/const x [= lit].
eval_VariableDeclaration(kind, value) ==
  /\ CanRun
  /\ Apply(Upd(Declare(envs, current_env, "x", value, kind), current_env,
               Declared(Note(stack, NoExpr), {"x"}), NoExc, NoneV,
               [Hist("VariableDeclaration") EXCEPT !.kind = kind]))
  /\ steps' = steps + 1
  /\ UNCHANGED functions

\* _eval_Identifier: [exc, value].
Identifier(E, cur, name) ==
  LET g == get(E, cur, name) IN
  IF g.ok THEN [exc |-> NoExc, value |-> g.value]
  ELSE [exc |-> RiftError("NameError"), value |-> NoneV]

eval_Identifier(name) ==
  /\ CanRun
  /\ LET r == Identifier(envs, current_env, name) IN
     Apply(Upd(envs, current_env,
               IF r.exc = NoExc THEN Note(stack, Expr("Identifier", name, "", 0, 0))
               ELSE stack,
               r.exc, IF r.exc = NoExc THEN r.value ELSE result,
               [Hist("Identifier") EXCEPT !.names = {name}]))
  /\ steps' = steps + 1
  /\ UNCHANGED functions

\* seq repeated n times (the host's seq * n; nothing for n <= 0).
RECURSIVE Repeat(_, _)
Repeat(seq, n) == IF n <= 0 THEN <<>> ELSE seq \o Repeat(seq, n - 1)

\* The host's old_value <op> value of a compound assignment: [err, value].
\* Division is the host's true division (a float); the divisions of the
\* vocabulary are exact.  Texts and lists are concatenated by + and
\* repeated by *; a text that takes part is TextV of its characters.
Combine(op, old, val) ==
  IF ~(IsNumber(old) /\ IsNumber(val))
  THEN IF op = "+=" /\ old.t = val.t /\ old.t \in {"text", "list"}
       THEN [err |-> "", value |-> [t |-> old.t, v |-> old.v \o val.v]]
       ELSE IF op = "*=" /\ old.t \in {"text", "list"} /\ val.t = "int"
       THEN [err |-> "", value |-> [t |-> old.t, v |-> Repeat(old.v, val.v)]]
       ELSE IF op = "*=" /\ old.t = "int" /\ val.t \in {"text", "list"}
       THEN [err |-> "", value |-> [t |-> val.t, v |-> Repeat(val.v, old.v)]]
       ELSE [err |-> "TypeError", value |-> NoneV]
  ELSE LET t == IF old.t = "float" \/ val.t = "float" THEN "float" ELSE "int" IN
       CASE op = "+=" -> [err |-> "", value |-> [t |-> t, v |-> old.v + val.v]]
         [] op = "-=" -> [err |-> "", value |-> [t |-> t, v |-> old.v - val.v]]
         [] op = "*=" -> [err |-> "", value |-> [t |-> t, v |-> old.v * val.v]]
         [] op = "/=" -> IF val.v = 0
                         THEN [err |-> "ZeroDivisionError", value |-> NoneV]
                         ELSE [err |-> "", value |-> FloatV(old.v \div val.v)]

\* _eval_Assignment of `value` to an Identifier target: [exc, envs, value].
AssignmentOf(E, cur, name, op, value) ==
  LET old == Identifier(E, cur, name)
      c == IF op = "=" THEN [err |-> "", value |-> value]
           ELSE IF old.exc # NoExc THEN [err |-> "NameError", value |-> NoneV]
           ELSE Combine(op, old.value, value)
      s == set(E, cur, name, c.value)
  IN IF c.err = "NameError" THEN [exc |-> RiftError("NameError"), envs |-> E, value |-> NoneV]
     ELSE IF c.err # "" THEN [exc |-> HostError(c.err), envs |-> E, value |-> NoneV]
     ELSE IF s.err # "" THEN [exc |-> RiftError(s.err), envs |-> s.envs, value |-> NoneV]
     ELSE [exc |-> NoExc, envs |-> s.envs, value |-> c.value]

\* _eval_Assignment with an Identifier target and a number literal.
Assignment(E, cur, name, op, lit) == AssignmentOf(E, cur, name, op, IntV(lit))

\* Ghost: the nearest binding of name was last declared with let or const.
DeclaredImmutable(E, cur, name) ==
  LET at == Resolve(E, cur, name) IN
  at # 0 /\ E[at].declared[name] \in {"let", "const"}

eval_Assignment(name, op, lit) ==
  /\ CanRun
  /\ LET r == Assignment(envs, current_env, name, op, lit) IN
     Apply(Upd(r.envs, current_env,
               IF r.exc = NoExc THEN Note(stack, Expr("Assignment", name, op, lit, 0))
               ELSE stack,
               r.exc, IF r.exc = NoExc THEN r.value ELSE result,
               [Hist("Assignment") EXCEPT
                  !.names = {name}, !.kind = op,
                  !.imm = DeclaredImmutable(envs, current_env, name),
                  !.comb = (op = "=" \/ (has(envs, current_env, name) /\
                              Combine(op, get(envs, current_env, name).value,
                                      IntV(lit)).err = ""))]))
  /\ steps' = steps + 1
  /\ UNCHANGED functions

\* _eval_FailStatement: fail lit.
eval_FailStatement ==
  /\ CanRun
  /\ Apply(Upd(envs, current_env, stack, RiftError("RuntimeError"), result,
               Hist("FailStatement")))
  /\ steps' = steps + 1
  /\ UNCHANGED functions

\* _eval_GiveStatement: give [lit].
eval_GiveStatement(value) ==
  /\ CanRun
  /\ Apply(Upd(envs, current_env, stack, ReturnSignal(value), result,
               Hist("GiveStatement")))
  /\ steps' = steps + 1
  /\ UNCHANGED functions

\* _eval_StopStatement.
eval_StopStatement ==
  /\ CanRun
  /\ Apply(Upd(envs, current_env, stack, BreakSignal, result, Hist("StopStatement")))
  /\ steps' = steps + 1
  /\ UNCHANGED functions

\* _eval_NextStatement.
eval_NextStatement ==
  /\ CanRun
  /\ Apply(Upd(envs, current_env, stack, ContinueSignal, result, Hist("NextStatement")))
  /\ steps' = steps + 1
  /\ UNCHANGED functions

\* _eval_Yield: yield lit.
eval_Yield(value) ==
  /\ CanRun
  /\ Apply(Upd(envs, current_env, stack, YieldSignal(value), result, Hist("Yield")))
  /\ steps' = steps + 1
  /\ UNCHANGED functions

(***************************************************************************)
(* Compound statements: the step that starts the handler and evaluates up  *)
(* to the start of its first block.  Conditions are inputs (the truth      *)
(* value of the condition expression).                                     *)
(***************************************************************************)
Enter(f) == [f EXCEPT !.vis = Visible(envs, current_env)]

\* _eval_IfStatement (no else branch).
eval_IfStatement(cond) ==
  /\ IF cond THEN CanNest ELSE CanRun
  /\ Apply(Upd(envs, current_env,
               IF cond THEN Append(stack, Enter(Frame("if", NoExpr)))
               ELSE Note(stack, NoExpr),
               NoExc, NoneV, Hist("IfStatement")))
  /\ steps' = steps + 1
  /\ UNCHANGED functions

\* _eval_WhileStatement up to the first evaluation of the body.
eval_WhileStatement(cond) ==
  /\ IF cond THEN CanNest ELSE CanRun
  /\ Apply(Upd(envs, current_env,
               IF cond THEN Append(stack, Enter(Frame("while", NoExpr)))
               ELSE Note(stack, NoExpr),
               NoExc, NoneV, Hist("WhileStatement")))
  /\ steps' = steps + 1
  /\ UNCHANGED functions

\* The start of one iteration of _eval_RepeatStatement: the index and the
\* element are (re)defined in the loop's scope.
RepeatBind(E, f) ==
  LET E1 == IF f.index_var # ""
            THEN Declare(E, f.env, f.index_var, IntV(f.index), "bind")
            ELSE E
  IN Declare(E1, f.env, "x", f.items[1], "bind")

\* _eval_RepeatStatement: repeat [(i,] x [)] in 1..n.
eval_RepeatStatement(n, index_var) ==
  /\ IF n > 0 THEN CanNest ELSE CanRun
  /\ LET E1 == child(envs, current_env, "repeat")
         env == Len(E1)
         f == [Enter(Frame("repeat", NoExpr)) EXCEPT
                 !.env = env, !.prev_env = current_env,
                 !.items = [k \in 1..n |-> IntV(k)], !.index_var = index_var]
     IN IF n = 0
        THEN Apply(Upd(E1, current_env, Note(stack, NoExpr), NoExc, NoneV,
                       Hist("RepeatStatement")))
        ELSE Apply(Upd(RepeatBind(E1, f), env, Append(stack, f), NoExc, NoneV,
                       Hist("RepeatStatement")))
  /\ steps' = steps + 1
  /\ UNCHANGED functions

\* A list value; its elements are values.
ListV(s) == [t |-> "list", v |-> s]

\* The host's == on two values: numbers and booleans compare as numbers,
\* lists element by element, everything else by kind and content.
RECURSIVE PyEq(_, _)
PyEq(a, b) ==
  IF a.t \in {"int", "float", "bool"} /\ b.t \in {"int", "float", "bool"}
  THEN a.v = b.v
  ELSE IF a.t # b.t THEN FALSE
  ELSE IF a.t = "list"
  THEN /\ Len(a.v) = Len(b.v)
       /\ \A i \in DOMAIN a.v : PyEq(a.v[i], b.v[i])
  ELSE a.v = b.v

\* _is_truthy.
is_truthy(value) ==
  CASE value.t = "none" -> FALSE
    [] value.t \in {"bool", "int", "float"} -> value.v # 0
    [] value.t = "list" -> Len(value.v) > 0
    [] OTHER -> TRUE

\* The text of a pattern: "_", a name, a number, or "list" with the texts
\* of its elements.
PatText(text, elements) == [text |-> text, elements |-> elements]

\* A node of the tree the parser makes of it.
PNode(kind, name, lit, elements) ==
  [node |-> kind, name |-> name, lit |-> lit, elements |-> elements]

IsNumeral(text) == text \in {"0", "1"}
Numeral(text) == IF text = "1" THEN 1 ELSE 0

\* parse_expression on the text of a list element: parse_primary makes an
\* Identifier of every name ("_" included), parse_list_literal a
\* ListLiteral whose elements are again expressions.
RECURSIVE parse_expression(_)
parse_expression(src) ==
  CASE IsNumeral(src.text) -> PNode("Literal", "", Numeral(src.text), <<>>)
    [] src.text = "list" ->
         PNode("ListLiteral", "", 0,
               [i \in DOMAIN src.elements |-> parse_expression(src.elements[i])])
    [] OTHER -> PNode("Identifier", src.text, 0, <<>>)

\* parse_pattern.
parse_pattern(src) ==
  CASE src.text = "_" -> PNode("WildcardPattern", "", 0, <<>>)
    [] IsNumeral(src.text) -> PNode("Literal", "", Numeral(src.text), <<>>)
    [] src.text = "list" -> parse_expression(src)
    [] OTHER -> PNode("BindingPattern", src.text, 0, <<>>)

\* dict.update on bindings, kept as a set of <<name, value>>.
UpdateBindings(bindings, more) ==
  {b \in bindings : \A c \in more : c[1] # b[1]} \cup more

\* _match_pattern: [matched, bindings].  A node that is none of the pattern
\* classes is evaluated as an expression in the current scope and compared
\* with the value; a failure of that evaluation is no match.
RECURSIVE match_pattern(_, _, _, _)
match_pattern(E, cur, pattern, value) ==
  LET RECURSIVE match_elements(_, _)
      match_elements(i, bindings) ==
        IF i > Len(pattern.elements) THEN [matched |-> TRUE, bindings |-> bindings]
        ELSE LET m == match_pattern(E, cur, pattern.elements[i], value.v[i]) IN
             IF ~m.matched THEN [matched |-> FALSE, bindings |-> bindings]
             ELSE match_elements(i + 1, UpdateBindings(bindings, m.bindings))
  IN
  CASE pattern.node = "WildcardPattern" -> [matched |-> TRUE, bindings |-> {}]
    [] pattern.node = "Literal" ->
         [matched |-> PyEq(IntV(pattern.lit), value), bindings |-> {}]
    [] pattern.node = "BindingPattern" ->
         [matched |-> TRUE, bindings |-> {<<pattern.name, value>>}]
    [] pattern.node = "ListLiteral" ->
         IF value.t # "list" THEN [matched |-> FALSE, bindings |-> {}]
         ELSE IF Len(pattern.elements) # Len(value.v)
         THEN [matched |-> FALSE, bindings |-> {}]
         ELSE match_elements(1, {})
    [] OTHER ->
         LET r == Identifier(E, cur, pattern.name) IN
         [matched |-> (r.exc = NoExc /\ PyEq(r.value, value)), bindings |-> {}]

Patterns ==
  {parse_pattern(PatText("_", <<>>)),
   parse_pattern(PatText("x", <<>>)),
   parse_pattern(PatText("0", <<>>))}

\* The bindings of a matched case defined in a scope.
RECURSIVE BindAll(_, _, _)
BindAll(E, env, bindings) ==
  IF bindings = {} THEN E
  ELSE LET b == CHOOSE b \in bindings : TRUE IN
       BindAll(Declare(E, env, b[1], b[2], "bind"), env, bindings \ {b})

\* A guard: none, the literal yes or no, or the identifier x.
NoGuard == [node |-> "", name |-> "", value |-> NoneV]
Guards ==
  {NoGuard,
   [node |-> "Literal", name |-> "", value |-> BoolV(TRUE)],
   [node |-> "Literal", name |-> "", value |-> BoolV(FALSE)],
   [node |-> "Identifier", name |-> "x", value |-> NoneV]}

CheckCase(pattern, guard) == [pattern |-> pattern, guard |-> guard]

\* The guard as it would be if it were evaluated in the enclosing scope,
\* without the bindings of the pattern.
Guard_without_bindings(E, env, guard) ==
  IF guard.node = "Literal" THEN [exc |-> NoExc, value |-> guard.value]
  ELSE Identifier(E, E[env].parent, guard.name)

\* The guard of a case evaluated in scope env: [exc, value].
Guard(E, env, guard) ==
  IF guard.node = "Literal" THEN [exc |-> NoExc, value |-> guard.value]
  ELSE Identifier(E, env, guard.name)

\* The for loop of _eval_CheckStatement from case i on.  sel is the case
\* whose body is to be evaluated (0: none) in scope env; ghosts: tried
\* (the cases whose pattern was matched against the value) and guards (the
\* cases whose guard was evaluated).
RECURSIVE CheckCases(_, _, _, _, _, _, _)
CheckCases(E, cur, value, cases, i, tried, guards) ==
  IF i > Len(cases)
  THEN [sel |-> 0, envs |-> E, env |-> cur, exc |-> NoExc, bound |-> {},
        tried |-> tried, guards |-> guards]
  ELSE
    LET case == cases[i]
        m == match_pattern(E, cur, case.pattern, value)
        Eg == IF case.guard.node = "" THEN E
              ELSE BindAll(child(E, cur, "check"), Len(E) + 1, m.bindings)
        g == Guard(Eg, Len(Eg), case.guard)
        Eb == BindAll(child(Eg, cur, "check"), Len(Eg) + 1, m.bindings)
        t1 == Append(tried, i)
        g1 == Append(guards, i)
    IN IF ~m.matched THEN CheckCases(E, cur, value, cases, i + 1, t1, guards)
       ELSE IF case.guard.node = ""
       THEN [sel |-> i, envs |-> Eb, env |-> Len(Eb), exc |-> NoExc,
             bound |-> m.bindings, tried |-> t1, guards |-> guards]
       ELSE IF g.exc # NoExc
       THEN [sel |-> 0, envs |-> Eg, env |-> cur, exc |-> g.exc, bound |-> {},
             tried |-> t1, guards |-> g1]
       ELSE IF ~is_truthy(g.value)
       THEN CheckCases(Eg, cur, value, cases, i + 1, t1, g1)
       ELSE [sel |-> i, envs |-> Eb, env |-> Len(Eb), exc |-> NoExc,
             bound |-> m.bindings, tried |-> t1, guards |-> g1]

\* _eval_CheckStatement: check value { pattern [when guard] => body ... },
\* up to the start of the body of the selected case.
eval_CheckStatement(value, cases) ==
  /\ LET r == CheckCases(envs, current_env, value, cases, 1, <<>>, <<>>)
         f == [Enter(Frame("check", NoExpr)) EXCEPT
                 !.env = r.env, !.prev_env = current_env,
                 !.decl = {b[1] : b \in r.bound}]
         h == [Hist("CheckStatement") EXCEPT !.sel = r.sel, !.tried = r.tried,
                                             !.guards = r.guards, !.bound = r.bound,
                                             !.env = current_env]
     IN /\ IF r.sel # 0 THEN CanNest ELSE CanRun
        /\ IF r.exc # NoExc
           THEN Apply(Upd(r.envs, current_env, stack, r.exc, result, h))
           ELSE IF r.sel # 0
           THEN Apply(Upd(r.envs, r.env, Append(stack, f), NoExc, NoneV, h))
           ELSE Apply(Upd(r.envs, current_env, Note(stack, NoExpr), NoExc, NoneV, h))
  /\ steps' = steps + 1
  /\ UNCHANGED functions

\* _eval_TryStatement up to the start of the try block.
eval_TryStatement(catch, catch_var, fin) ==
  /\ CanNest
  /\ Apply(Upd(envs, current_env,
               Append(stack, [Enter(Frame("try", NoExpr)) EXCEPT
                                !.phase = "try", !.catch = catch,
                                !.catch_var = catch_var, !.fin = fin,
                                !.ran = <<"try">>]),
               NoExc, NoneV, Hist("TryStatement")))
  /\ steps' = steps + 1
  /\ UNCHANGED functions

(***************************************************************************)
(* Function values and calls.  A RiftFunction / RiftLambda is              *)
(* [kind, closure, name, default]: one parameter p whose default           *)
(* expression is the Identifier `default` ("" when it has none).           *)
(***************************************************************************)
Defaults == {"", "x"}

RiftFunction(kind, closure, name, default) ==
  [kind |-> kind, closure |-> closure, name |-> name, default |-> default,
   is_generator |-> FALSE,
   seen |-> get(envs, closure, "x")]   \* ghost: x as seen when it was created

\* _eval_FunctionDeclaration: conduit f(p [= x]) { ... }.
eval_FunctionDeclaration(default) ==
  /\ CanRun
  /\ Len(functions) < MaxFuncs
  /\ functions' = Append(functions, RiftFunction("function", current_env, "f", default))
  /\ LET func == FuncV(Len(functions) + 1) IN
     Apply(Upd(Declare(envs, current_env, "f", func, "bind"), current_env,
               Declared(Note(stack, NoExpr), {"f"}), NoExc, func,
               Hist("FunctionDeclaration")))
  /\ steps' = steps + 1

\* _eval_Lambda under _eval_VariableDeclaration: let g = (p [= x]) => { ... }.
eval_Lambda(default) ==
  /\ CanRun
  /\ Len(functions) < MaxFuncs
  /\ functions' = Append(functions, RiftFunction("lambda", current_env, "lambda", default))
  /\ Apply(Upd(Declare(envs, current_env, "g", LambdaV(Len(functions) + 1), "let"),
               current_env, Declared(Note(stack, NoExpr), {"g"}), NoExc, NoneV,
               Hist("Lambda")))
  /\ steps' = steps + 1

\* _eval_ClassDeclaration: make C { conduit m(p [= x]) { ... } }.  The
\* class is identified with its one method.
eval_ClassDeclaration(default) ==
  /\ CanRun
  /\ Len(functions) < MaxFuncs
  /\ functions' = Append(functions, RiftFunction("method", current_env, "m", default))
  /\ LET cls == ClassV(Len(functions) + 1) IN
     Apply(Upd(Declare(envs, current_env, "C", cls, "bind"), current_env,
               Declared(Note(stack, NoExpr), {"C"}), NoExc, cls,
               Hist("ClassDeclaration")))
  /\ steps' = steps + 1

\* The scope of a call as it would be under dynamic scoping.
call_scope_dynamic(E, func, cur) == child(E, cur, func.name)

\* env = func.closure.child(decl.name): the heap with the scope of a call.
call_scope(E, func, cur) == child(E, func.closure, func.name)

\* The scope in which a missing parameter's default is evaluated: the
\* current scope at that point, which _call_lambda has switched to env and
\* _call_function and _call_bound_method have not.
default_scope(func, cur, env) == IF func.kind = "lambda" THEN env ELSE cur

\* "Bind parameters": [exc, envs].
bind_parameters(E, cur, env, func, args) ==
  IF Len(args) > 0 THEN [exc |-> NoExc, envs |-> Declare(E, env, "p", args[1], "bind")]
  ELSE IF func.default # ""
  THEN LET d == Identifier(E, default_scope(func, cur, env), func.default) IN
       IF d.exc # NoExc THEN [exc |-> d.exc, envs |-> E]
       ELSE [exc |-> NoExc, envs |-> Declare(E, env, "p", d.value, "bind")]
  ELSE [exc |-> NoExc, envs |-> Declare(E, env, "p", NoneV, "bind")]

\* _call_function / _call_lambda / _call_bound_method up to the start of
\* the body.
call_user(E, cur, stk, fid, args, expr) ==
  LET func == functions[fid]
      E1 == call_scope(E, func, cur)
      env == Len(E1)
      E2 == IF func.kind = "method"
            THEN Declare(E1, env, "me", InstanceV(fid), "bind") ELSE E1
      b == bind_parameters(E2, cur, env, func, args)
      f == [Frame(func.kind, expr) EXCEPT
              !.env = env, !.prev_env = cur, !.fn = fid, !.vis = Visible(E, cur)]
      h == [Hist("Call") EXCEPT !.kind = func.kind, !.fn = fid, !.env = env,
                                !.last = expr]
  IN IF b.exc # NoExc THEN Upd(b.envs, cur, stk, b.exc, result, h)
     ELSE Upd(b.envs, env, Append(stk, f), NoExc, NoneV, h)

\* _eval_Call and _call for the calls of the vocabulary: f(lit?), g(lit?)
\* and C().m(lit?).
call(E, cur, stk, expr) ==
  LET callee == Identifier(E, cur, expr.name)
      h == [Hist("Call") EXCEPT !.names = {expr.name}]
  IN IF callee.exc # NoExc THEN Upd(E, cur, stk, callee.exc, result, h)
     ELSE IF expr.node = "MethodCall" /\ callee.value.t = "RiftClass"
     THEN call_user(E, cur, stk, callee.value.v, Args(expr.nargs, expr.lit), expr)
     ELSE IF expr.node = "Call" /\ callee.value.t \in {"RiftFunction", "RiftLambda"}
     THEN call_user(E, cur, stk, callee.value.v, Args(expr.nargs, expr.lit), expr)
     ELSE Upd(E, cur, stk, RiftError("TypeError"), result, h)

eval_Call(name, nargs, lit) ==
  /\ CanNest
  /\ Apply(call(envs, current_env, stack, Expr("Call", name, "", lit, nargs)))
  /\ steps' = steps + 1
  /\ UNCHANGED functions

eval_MethodCall(nargs, lit) ==
  /\ CanNest
  /\ Apply(call(envs, current_env, stack, Expr("MethodCall", "C", "", lit, nargs)))
  /\ steps' = steps + 1
  /\ UNCHANGED functions

(***************************************************************************)
(* The rest of each handler: what it does when the block it is evaluating  *)
(* ends (Done), and when an exception comes out of that block (Raise).     *)
(* f is the handler's frame, the top of the stack.                         *)
(***************************************************************************)
\* The handler returns value res to the statement list it was called from.
Return(f, cur, res, expr, how) ==
  Upd(envs, cur, Leave(stack, expr), NoExc, res, Exit(f, how))

\* The exception x leaves the handler.
Throw(f, cur, x, how) ==
  Upd(envs, cur, Declared(Pop(stack), f.decl), x, result, Exit(f, how))

\* The condition of a while loop is evaluated again.
WhileAgain(f, cond, res, how) ==
  IF cond
  THEN Upd(envs, current_env, SetTop(stack, [f EXCEPT !.res = res]), NoExc, NoneV,
           Hist("iterate"))
  ELSE Return([f EXCEPT !.res = res], current_env, res, NoExpr, how)

\* The for loop of _eval_RepeatStatement takes its next element, or ends
\* and the finally clause restores the scope.
RepeatAgain(f, res, how) ==
  IF Len(f.items) > 1
  THEN LET g == [f EXCEPT !.items = Tail(@), !.index = @ + 1, !.res = res] IN
       Upd(RepeatBind(envs, g), current_env, SetTop(stack, g), NoExc, NoneV,
           Hist("iterate"))
  ELSE Return([f EXCEPT !.res = res], f.prev_env, res, NoExpr, how)

\* The finally clause as it would be if the finally block were evaluated
\* only on the paths that raise nothing.
finally_only_on_success(f, cur, pending, res) ==
  IF pending # NoExc
  THEN Throw(f, cur, pending, "reraise")
  ELSE IF f.fin
  THEN Upd(envs, cur,
           SetTop(stack, [f EXCEPT !.phase = "finally", !.pending = pending,
                                   !.res = res, !.ran = Append(@, "finally")]),
           NoExc, NoneV, Hist("finally"))
  ELSE Return(f, cur, res, NoExpr, "done")

\* The finally clause of _eval_TryStatement, entered with the exception
\* that is to be re-raised after it (NoExc when there is none) and the
\* value of the handler's local result.
finally_clause(f, cur, pending, res) ==
  IF f.fin
  THEN Upd(envs, cur,
           SetTop(stack, [f EXCEPT !.phase = "finally", !.pending = pending,
                                   !.res = res, !.ran = Append(@, "finally")]),
           NoExc, NoneV, Hist("finally"))
  ELSE IF pending # NoExc
  THEN Throw(f, cur, pending, "reraise")
  ELSE Return(f, cur, res, NoExpr, "done")

\* The except clauses as they would be without the test that lets the
\* control-flow signals through.
except_clause_catches_all(f, x) ==
  IF f.catch
  THEN LET E1 == child(envs, current_env, "catch")
           env == Len(E1)
           E2 == IF f.catch_var # ""
                 THEN Declare(E1, env, f.catch_var, ErrorText(x), "bind")
                 ELSE E1
       IN Upd(E2, env,
              SetTop(stack, [f EXCEPT !.phase = "catch", !.env = env,
                                      !.prev_env = current_env, !.thrown = x,
                                      !.ran = Append(@, "catch")]),
              NoExc, NoneV, Hist("catch"))
  ELSE finally_clause([f EXCEPT !.thrown = x], current_env, NoExc, NoneV)

\* The except clauses of _eval_TryStatement for exception x raised by the
\* try block.
except_clause(f, x) ==
  IF IsSignal(x)
  THEN finally_clause([f EXCEPT !.thrown = x], current_env, x, NoneV)
  ELSE IF f.catch
  THEN LET E1 == child(envs, current_env, "catch")
           env == Len(E1)
           E2 == IF f.catch_var # ""
                 THEN Declare(E1, env, f.catch_var, ErrorText(x), "bind")
                 ELSE E1
       IN Upd(E2, env,
              SetTop(stack, [f EXCEPT !.phase = "catch", !.env = env,
                                      !.prev_env = current_env, !.thrown = x,
                                      !.ran = Append(@, "catch")]),
              NoExc, NoneV, Hist("catch"))
  ELSE finally_clause([f EXCEPT !.thrown = x], current_env, NoExc, NoneV)

\* "Auto-return" of _call_function: the last statement of the body, when
\* it is an ExpressionStatement, is evaluated (again) for the call's value.
auto_return(f) ==
  LET g == [f EXCEPT !.last.n = @ + 1]
      stk == SetTop(stack, [g EXCEPT !.phase = "autoret"])
      h == [Hist("autoret") EXCEPT !.last = g.last]
  IN CASE f.last.node = "Identifier" ->
            LET r == Identifier(envs, current_env, f.last.name) IN
            IF r.exc # NoExc THEN Upd(envs, current_env, stk, r.exc, result, h)
            ELSE Upd(envs, f.prev_env, Leave(stack, f.expr), NoExc, r.value,
                     Exit(g, "done"))
       [] f.last.node = "Assignment" ->
            LET r == Assignment(envs, current_env, f.last.name, f.last.op, f.last.lit) IN
            IF r.exc # NoExc THEN Upd(r.envs, current_env, stk, r.exc, result, h)
            ELSE Upd(r.envs, f.prev_env, Leave(stack, f.expr), NoExc, r.value,
                     Exit(g, "done"))
       [] f.last.node \in {"Call", "MethodCall"} ->
            LET u == call(envs, current_env, stk, f.last) IN [u EXCEPT !.hist = h]
       [] OTHER -> Return(f, f.prev_env, result, f.expr, "done")

Done(f, cond) ==
  CASE f.kind = "if" -> Return(f, current_env, result, NoExpr, "done")
    [] f.kind = "while" -> WhileAgain(f, cond, result, "done")
    [] f.kind = "repeat" -> RepeatAgain(f, result, "done")
    [] f.kind = "check" -> Return(f, f.prev_env, result, NoExpr, "done")
    [] f.kind = "try" /\ f.phase = "try" -> finally_clause(f, current_env, NoExc, result)
    [] f.kind = "try" /\ f.phase = "catch" -> finally_clause(f, f.prev_env, NoExc, result)
    [] f.kind = "try" /\ f.phase = "finally" ->
         IF f.pending # NoExc THEN Throw(f, current_env, f.pending, "reraise")
         ELSE Return(f, current_env, f.res, NoExpr, "done")
    [] f.kind = "function" /\ f.phase = "body" -> auto_return(f)
    [] f.kind = "function" /\ f.phase = "autoret" ->
         Return(f, f.prev_env, result, f.expr, "done")
    [] f.kind \in {"lambda", "method"} -> Return(f, f.prev_env, result, f.expr, "done")

\* The except clauses of the while loop as they would be without the one
\* for BreakSignal.
while_except_no_break(f, x, cond) ==
  IF x = ContinueSignal THEN WhileAgain(f, cond, f.res, "next")
  ELSE Throw(f, current_env, x, "raise")

\* The except clauses around the body of the while loop.
while_except(f, x, cond) ==
  IF x = BreakSignal THEN Return(f, current_env, f.res, NoExpr, "caught")
  ELSE IF x = ContinueSignal THEN WhileAgain(f, cond, f.res, "next")
  ELSE Throw(f, current_env, x, "raise")

\* The except clauses around the body of the repeat loop, and its finally.
repeat_except(f, x) ==
  IF x = BreakSignal THEN Return(f, f.prev_env, f.res, NoExpr, "caught")
  ELSE IF x = ContinueSignal THEN RepeatAgain(f, f.res, "next")
  ELSE Throw(f, f.prev_env, x, "raise")

Raise(f, x, cond) ==
  CASE f.kind = "if" -> Throw(f, current_env, x, "raise")
    [] f.kind = "while" -> while_except(f, x, cond)
    [] f.kind = "repeat" -> repeat_except(f, x)
    [] f.kind = "check" -> Throw(f, f.prev_env, x, "raise")
    [] f.kind = "try" /\ f.phase = "try" -> except_clause(f, x)
    [] f.kind = "try" /\ f.phase = "catch" ->
         finally_clause(f, f.prev_env, x, f.res)
    [] f.kind = "try" /\ f.phase = "finally" -> Throw(f, current_env, x, "raise")
    [] f.kind \in CallKinds ->
         IF x.kind = "ReturnSignal"
         THEN Return(f, f.prev_env, x.value, f.expr, "caught")
         ELSE Throw(f, f.prev_env, x, "raise")

\* The block on top of the stack has no more statements.
BlockDone ==
  /\ exc = NoExc
  /\ stack # <<>>
  /\ \E cond \in BOOLEAN :
       /\ (cond => Top(stack).kind = "while" /\ steps < MaxSteps)
       /\ Apply(Done(Top(stack), cond))
  /\ UNCHANGED <<functions, steps>>

\* An exception reaches the handler on top of the stack.
Unwind ==
  /\ exc # NoExc
  /\ stack # <<>>
  /\ \E cond \in BOOLEAN :
       /\ (cond => Top(stack).kind = "while" /\ exc = ContinueSignal /\ steps < MaxSteps)
       /\ Apply(Raise(Top(stack), exc, cond))
  /\ UNCHANGED <<functions, steps>>

(***************************************************************************)
(* Specifications.  Each one runs the evaluator on the programs of one     *)
(* statement vocabulary.                                                   *)
(***************************************************************************)
\* Declarations and assignments, at any depth of nested scopes.
NextAssign ==
  \/ \E kind \in Kinds, value \in {NoneV, IntV(1)} : eval_VariableDeclaration(kind, value)
  \/ \E op \in Operators, lit \in Lits : eval_Assignment("x", op, lit)
  \/ eval_RepeatStatement(1, "")
  \/ \E pattern \in Patterns :
       eval_CheckStatement(IntV(0), <<CheckCase(pattern, NoGuard)>>)
  \/ BlockDone
  \/ Unwind

SpecAssign == Init /\ [][NextAssign]_vars

\* Blocks of every kind, declarations inside them and reads.
NextBlocks ==
  \/ \E kind \in {"let", "mut"} : eval_VariableDeclaration(kind, IntV(1))
  \/ eval_Identifier("x")
  \/ \E cond \in BOOLEAN : eval_IfStatement(cond)
  \/ \E cond \in BOOLEAN : eval_WhileStatement(cond)
  \/ \E n \in 0..MaxIter : eval_RepeatStatement(n, "")
  \/ \E pattern \in Patterns :
       eval_CheckStatement(IntV(0), <<CheckCase(pattern, NoGuard)>>)
  \/ \E catch_var \in {"", "e"} : eval_TryStatement(catch_var # "", catch_var, FALSE)
  \/ eval_FailStatement
  \/ eval_FunctionDeclaration("")
  \/ eval_Call("f", 0, 1)
  \/ BlockDone
  \/ Unwind

SpecBlocks == Init /\ [][NextBlocks]_vars

\* Functions, lambdas and methods, and their calls.
NextCalls ==
  \/ \E kind \in {"let", "mut"} : eval_VariableDeclaration(kind, IntV(0))
  \/ eval_Identifier("x")
  \/ eval_Assignment("x", "+=", 1)
  \/ \E default \in Defaults : eval_FunctionDeclaration(default)
  \/ \E default \in Defaults : eval_Lambda(default)
  \/ \E default \in Defaults : eval_ClassDeclaration(default)
  \/ \E name \in {"f", "g"}, nargs \in 0..1 : eval_Call(name, nargs, 1)
  \/ \E nargs \in 0..1 : eval_MethodCall(nargs, 1)
  \/ eval_RepeatStatement(1, "")
  \/ eval_GiveStatement(IntV(1))
  \/ BlockDone
  \/ Unwind

SpecCalls == Init /\ [][NextCalls]_vars

\* try/catch/finally, failures, signals, loops and calls.
NextTry ==
  \/ \E catch_var \in {"", "e"}, fin \in BOOLEAN :
       eval_TryStatement(catch_var # "", catch_var, fin)
  \/ eval_FailStatement
  \/ eval_Assignment("x", "/=", 0)
  \/ eval_GiveStatement(IntV(1))
  \/ eval_StopStatement
  \/ eval_NextStatement
  \/ eval_Yield(IntV(1))
  \/ eval_Identifier("yes")
  \/ \E cond \in BOOLEAN : eval_WhileStatement(cond)
  \/ \E n \in 1..MaxIter : eval_RepeatStatement(n, "")
  \/ eval_FunctionDeclaration("")
  \/ eval_Call("f", 0, 1)
  \/ BlockDone
  \/ Unwind

SpecTry == Init /\ [][NextTry]_vars

\* repeat loops and the closures made in them.
NextRepeat ==
  \/ \E n \in 0..MaxIter, index_var \in {"", "i"} : eval_RepeatStatement(n, index_var)
  \/ eval_Lambda("")
  \/ eval_Identifier("x")
  \/ \E name \in {"x", "i"} : eval_Assignment(name, "=", 0)
  \/ eval_Call("g", 0, 1)
  \/ eval_StopStatement
  \/ eval_NextStatement
  \/ BlockDone
  \/ Unwind

SpecRepeat == Init /\ [][NextRepeat]_vars

\* check statements: the statement under evaluation is drawn by the
\* initial state, its bodies are made of reads, declarations and the
\* statement itself.
CheckValues == {IntV(0), IntV(1)}
CheckCases1 == {<<CheckCase(pattern, guard)>> : pattern \in Patterns, guard \in Guards}
CheckCases2 == {c1 \o c2 : c1 \in CheckCases1, c2 \in CheckCases1}
CheckStatements ==
  {[node |-> "CheckStatement", value |-> value, cases |-> cases] :
     value \in CheckValues, cases \in CheckCases1 \cup CheckCases2}

InitCheck == Start /\ ast_node \in CheckStatements

NextCheck ==
  \/ eval_VariableDeclaration("let", IntV(1))
  \/ eval_CheckStatement(ast_node.value, ast_node.cases)
  \/ eval_Identifier("x")
  \/ BlockDone
  \/ Unwind

SpecCheck == InitCheck /\ [][NextCheck]_vars

\* List patterns: one case without guard whose pattern is a list of up to
\* MaxLen texts, each "_", x, a number or a one-element list of those,
\* against numbers and lists of numbers and one-element lists.
MaxLen == 2

SeqsUpTo(S, n) == UNION {[1..k -> S] : k \in 0..n}

ElementTexts == {PatText(text, <<>>) : text \in {"_", "x", "0", "1"}}
ListTexts ==
  {PatText("list", elements) :
     elements \in SeqsUpTo(ElementTexts
                             \cup {PatText("list", <<e>>) : e \in ElementTexts},
                           MaxLen)}
ListValues ==
  {IntV(0)} \cup
  {ListV(elements) :
     elements \in SeqsUpTo({IntV(0), IntV(1), ListV(<<IntV(0)>>), ListV(<<IntV(1)>>)},
                           MaxLen)}

InitPattern ==
  /\ Start
  /\ ast_node \in {[node |-> "CheckStatement", value |-> value, source |-> src,
                    cases |-> <<CheckCase(parse_pattern(src), NoGuard)>>] :
                     value \in ListValues, src \in ListTexts}

SpecPattern == InitPattern /\ [][NextCheck]_vars

(***************************************************************************)
(* Classes and instances (types.py).  `classes` is the heap of RiftClass   *)
(* objects; a class is referred to by its index, parent 0 is None.         *)
(* methods and properties are the two dicts of the class, from names to    *)
(* values.                                                                 *)
(***************************************************************************)
NoMembers == [n \in {} |-> NoneV]

RiftClass(name, methods, properties, parent) ==
  [name |-> name, methods |-> methods, properties |-> properties, parent |-> parent]

\* RiftInstance.__init__: the own state starts as a copy of the property
\* defaults of the instance's class.
RiftInstance(classes, c) == [class |-> c, properties |-> classes[c].properties]

\* The loops of get_property and get_method: the entry for `name` in the
\* dict `field` of the first class from c upwards that has one; ok = FALSE
\* is the host's AttributeError.
RECURSIVE Lookup(_, _, _, _)
Lookup(classes, c, field, name) ==
  IF c = 0 THEN [ok |-> FALSE, value |-> NoneV]
  ELSE IF name \in DOMAIN classes[c][field]
  THEN [ok |-> TRUE, value |-> classes[c][field][name]]
  ELSE Lookup(classes, classes[c].parent, field, name)

get_property(classes, inst, name) ==
  IF name \in DOMAIN inst.properties
  THEN [ok |-> TRUE, value |-> inst.properties[name]]
  ELSE Lookup(classes, classes[inst.class].parent, "properties", name)

\* get_method as it would be without the walk up the parent classes.
get_method_own_class_only(classes, inst, name) ==
  IF name \in DOMAIN classes[inst.class].methods
  THEN [ok |-> TRUE, value |-> classes[inst.class].methods[name]]
  ELSE [ok |-> FALSE, value |-> NoneV]

get_method(classes, inst, name) == Lookup(classes, inst.class, "methods", name)

(***************************************************************************)
(* Pipelines: value -> m(args) with one call-shaped stage whose callee is  *)
(* the bare identifier m.  Texts are TextV of their characters.            *)
(***************************************************************************)
abc == <<"a", "b", "c">>

\* The host's str.upper, str.startswith and str.count (without bounds) on
\* texts of the letters a, b and c.
upper(chars) ==
  [i \in 1..Len(chars) |->
     CASE chars[i] = "a" -> "A" [] chars[i] = "b" -> "B" [] chars[i] = "c" -> "C"
       [] OTHER -> chars[i]]

startswith(chars, prefix) ==
  Len(prefix) <= Len(chars) /\ SubSeq(chars, 1, Len(prefix)) = prefix

RECURSIVE count(_, _)
count(chars, sub) ==
  IF sub = <<>> THEN Len(chars) + 1
  ELSE IF Len(chars) < Len(sub) THEN 0
  ELSE IF startswith(chars, sub)
  THEN 1 + count(SubSeq(chars, Len(sub) + 1, Len(chars)), sub)
  ELSE count(Tail(chars), sub)

\* The callable attributes the host gives the objects that stand for RIFT
\* values (hasattr / getattr / callable), among the names of StageNames:
\* str has upper and count, list has count and pop, RiftInstance has
\* get_method, int has none of them.
HostAttributes(obj) ==
  CASE obj.t = "text" -> {"upper", "count"}
    [] obj.t = "list" -> {"count", "pop"}
    [] obj.t = "RiftInstance" -> {"get_method"}
    [] OTHER -> {}

\* _try_get_method: whether it returns a method (TRUE) or None (FALSE).
try_get_method(obj, method_name) == method_name \in HostAttributes(obj)

Returned(value) == [exc |-> NoExc, value |-> value]
Raised(e) == [exc |-> e, value |-> NoneV]

\* callee(*args) of _call for the host attribute `name` of obj.  What is
\* raised by the host is a host error: the `except TypeError` of _call names
\* the TypeError of errors.py.
HostMethod(obj, name, args) ==
  CASE obj.t = "text" /\ name = "upper" ->
         IF args = <<>> THEN Returned(TextV(upper(obj.v)))
         ELSE Raised(HostError("TypeError"))
    [] obj.t = "text" /\ name = "count" ->
         IF Len(args) = 1 /\ args[1].t = "text"
         THEN Returned(IntV(count(obj.v, args[1].v)))
         ELSE Raised(HostError("TypeError"))
    [] obj.t = "list" /\ name = "count" ->
         IF Len(args) = 1
         THEN Returned(IntV(Cardinality({i \in 1..Len(obj.v) : PyEq(obj.v[i], args[1])})))
         ELSE Raised(HostError("TypeError"))
    [] obj.t = "list" /\ name = "pop" ->
         IF Len(args) > 1 \/ (Len(args) = 1 /\ args[1].t # "int")
         THEN Raised(HostError("TypeError"))
         ELSE LET n == Len(obj.v)
                  i == IF args = <<>> THEN n
                       ELSE IF args[1].v < 0 THEN n + args[1].v + 1 ELSE args[1].v + 1
              IN IF i \in 1..n THEN Returned(obj.v[i]) ELSE Raised(HostError("IndexError"))
    [] obj.t = "RiftInstance" /\ name = "get_method" ->
         IF Len(args) = 1 THEN Raised(HostError("AttributeError"))
         ELSE Raised(HostError("TypeError"))
    [] OTHER -> Raised(HostError("AttributeError"))

\* The host functions of the global scope (Interpreter._setup_builtins)
\* that the programs of the vocabulary can name.
BuiltinNames == <<"startsWith", "len", "abs">>
HostV(name) ==
  [t |-> "builtin", v |-> CHOOSE i \in 1..Len(BuiltinNames) : BuiltinNames[i] = name]

\* callee(*args) of _call for a host function of the global scope.
\* _builtin_starts_with(s, prefix) is s.startswith(prefix);
\* _builtin_len(obj) is 0 for none and the host's len otherwise;
\* _builtin_abs(value) is the host's abs.
HostFunction(name, args) ==
  CASE name = "startsWith" ->
         IF Len(args) # 2 THEN Raised(HostError("TypeError"))
         ELSE IF args[1].t # "text" THEN Raised(HostError("AttributeError"))
         ELSE IF args[2].t # "text" THEN Raised(HostError("TypeError"))
         ELSE Returned(BoolV(startswith(args[1].v, args[2].v)))
    [] name = "len" ->
         IF Len(args) # 1 THEN Raised(HostError("TypeError"))
         ELSE IF args[1].t = "none" THEN Returned(IntV(0))
         ELSE IF args[1].t \in {"list", "text"} THEN Returned(IntV(Len(args[1].v)))
         ELSE Raised(HostError("TypeError"))
    [] name = "abs" ->
         IF Len(args) # 1 THEN Raised(HostError("TypeError"))
         ELSE IF args[1].t \in {"int", "float", "bool"}
         THEN Returned([t |-> IF args[1].t = "bool" THEN "int" ELSE args[1].t,
                        v |-> IF args[1].v < 0 THEN 0 - args[1].v ELSE args[1].v])
         ELSE Raised(HostError("TypeError"))
    [] OTHER -> Raised(HostError("TypeError"))

\* _eval_Pipeline for the stage name(arguments) on `value`: the call of the
\* host attribute when _try_get_method finds one, else the call of what the
\* identifier evaluates to with the piped value appended, else the
\* NameError that replaces the identifier's.  hist.how and hist.args record
\* which callee was applied to which arguments.
Pipeline(E, cur, stk, value, name, arguments) ==
  LET h == [Hist("Pipeline") EXCEPT !.names = {name}, !.env = cur]
      expr == Expr("Call", name, "", 0, Len(arguments))
  IN IF try_get_method(value, name)
     THEN LET r == HostMethod(value, name, arguments) IN
          Upd(E, cur, stk, r.exc, IF r.exc = NoExc THEN r.value ELSE result,
              [h EXCEPT !.how = "member", !.args = arguments])
     ELSE LET func == Identifier(E, cur, name)
              args == Append(arguments, value)
              hf == [h EXCEPT !.how = "function", !.args = args]
          IN IF func.exc # NoExc
             THEN Upd(E, cur, stk, RiftError("NameError"), result,
                      [h EXCEPT !.how = "neither"])
             ELSE IF func.value.t = "builtin"
             THEN LET r == HostFunction(BuiltinNames[func.value.v], args) IN
                  Upd(E, cur, stk, r.exc, IF r.exc = NoExc THEN r.value ELSE result, hf)
             ELSE IF func.value.t \in {"RiftFunction", "RiftLambda"}
             THEN LET u == call_user(E, cur, stk, func.value.v, args, expr) IN
                  [u EXCEPT !.hist = [hf EXCEPT !.kind = u.hist.kind, !.fn = u.hist.fn,
                                                !.last = expr]]
             ELSE Upd(E, cur, stk, RiftError("TypeError"), result, hf)

eval_Pipeline(value, name, arguments) ==
  /\ CanNest
  /\ Apply(Pipeline(envs, current_env, stack, value, name, arguments))
  /\ steps' = steps + 1
  /\ UNCHANGED functions

\* The pipelines of the vocabulary: a text, a list, a number or an instance
\* of B piped into a stage of each name with no argument or the argument 0.
\* A has the method k, B extends A with the method m; a conduit of the
\* stage's name may have been declared (`defined`).
StageNames == {"upper", "startsWith", "count", "pop", "m", "k", "get_method", "f"}
StageArguments == {<<>>, <<IntV(0)>>}
PipedClasses ==
  <<RiftClass("A", [n \in {"k"} |-> FuncV(2)], NoMembers, 0),
    RiftClass("B", [n \in {"m"} |-> FuncV(3)], NoMembers, 1)>>
PipedValues == {TextV(abc), ListV(<<IntV(0)>>), IntV(0), InstanceV(1)}
Pipelines ==
  {[node |-> "Pipeline", value |-> value, stage |-> name, arguments |-> arguments,
    defined |-> defined, classes |-> PipedClasses,
    instance |-> RiftInstance(PipedClasses, 2)] :
     value \in PipedValues, name \in StageNames, arguments \in StageArguments,
     defined \in BOOLEAN}

InitPipeline ==
  /\ ast_node \in Pipelines
  /\ LET g == define(GlobalEnvironment, 1, "startsWith", HostV("startsWith"), TRUE, FALSE) IN
     envs = IF ast_node.defined THEN Declare(g, 1, ast_node.stage, FuncV(1), "bind") ELSE g
  /\ current_env = 1
  /\ functions = IF ast_node.defined
                 THEN <<RiftFunction("function", 1, ast_node.stage, "")>> ELSE <<>>
  /\ stack = <<>>
  /\ exc = NoExc
  /\ result = NoneV
  /\ steps = 0
  /\ hist = Hist("init")
  /\ modules = <<>>
  /\ loads = <<>>
  /\ objects = <<>>
  /\ threads = <<>>

NextPipeline ==
  \/ eval_Pipeline(ast_node.value, ast_node.stage, ast_node.arguments)
  \/ \E name \in {"p", "x"} : eval_Identifier(name)
  \/ BlockDone
  \/ Unwind

SpecPipeline == InitPipeline /\ [][NextPipeline]_vars

(***************************************************************************)
(* Lexer and parser for the sources written with the characters a, f, g,   *)
(* -, >, ~ and !.  A source is a sequence of characters, a token is       *)
(* [type, value], a syntax tree is [node, name, children, async_].         *)
(***************************************************************************)
Letters == {"a", "f", "g"}

Token(type, value) == [type |-> type, value |-> value]

\* Lexer.read_identifier: the end of the run of letters that starts at i
\* (no such run is a keyword).
RECURSIVE read_identifier(_, _)
read_identifier(src, i) ==
  IF i < Len(src) /\ src[i + 1] \in Letters THEN read_identifier(src, i + 1) ELSE i

\* Lexer.read_operator at position i: [ok, token, next].  two_char_ops has
\* "->" and no "~>"; one_char_ops has "~" and "!" as the list brackets.
read_operator(src, i) ==
  LET two == IF i < Len(src) THEN SubSeq(src, i, i + 1) ELSE <<>>
      char == src[i]
  IN IF two = <<"-", ">">>
     THEN [ok |-> TRUE, token |-> Token("PIPELINE", two), next |-> i + 2]
     ELSE IF char \in {"-", ">", "~", "!"}
     THEN [ok |-> TRUE, next |-> i + 1,
           token |-> Token(CASE char = "-" -> "MINUS" [] char = ">" -> "GT"
                             [] char = "~" -> "LBRACKET" [] char = "!" -> "RBRACKET",
                           <<char>>)]
     ELSE [ok |-> FALSE, token |-> Token("", <<>>), next |-> i]

\* Lexer.tokenize from position i: [ok, tokens]; ok = FALSE is LexerError.
RECURSIVE tokenize(_, _)
tokenize(src, i) ==
  IF i > Len(src) THEN [ok |-> TRUE, tokens |-> <<Token("EOF", <<>>)>>]
  ELSE IF src[i] \in Letters
  THEN LET j == read_identifier(src, i)
           rest == tokenize(src, j + 1)
       IN [rest EXCEPT !.tokens = <<Token("IDENTIFIER", SubSeq(src, i, j))>> \o @]
  ELSE LET op == read_operator(src, i) IN
       IF ~op.ok THEN [ok |-> FALSE, tokens |-> <<>>]
       ELSE LET rest == tokenize(src, op.next) IN
            [rest EXCEPT !.tokens = <<op.token>> \o @]

Tree(node, name, children) ==
  [node |-> node, name |-> name, children |-> children, async_ |-> FALSE]
NoTree == Tree("", <<>>, <<>>)

\* What a parsing function returns: ok = FALSE for a ParseError, else the
\* node and the position after it; the loops return the nodes they have
\* collected and whether an asynchronous operator was among them.
Parsed(node, pos, nodes, async_) ==
  [ok |-> TRUE, node |-> node, pos |-> pos, nodes |-> nodes, async_ |-> async_]
ParseError == [ok |-> FALSE, node |-> NoTree, pos |-> 0, nodes |-> <<>>, async_ |-> FALSE]

\* The recursive-descent functions of Parser, named by `rule`, at position
\* pos; expr, nodes and async_ are the locals of the loops.
\*   parse: expression statements up to the end of the tokens (nodes: body).
\*   parse_pipeline: parse_expression; parse_assignment finds no assignment
\*     operator among these tokens.
\*   stages: the while loop of parse_pipeline.
\*   parse_comparison: parse_null_coalesce down to parse_comparison; of the
\*     levels in between none has an operator among these tokens.
\*   operands: the while loop of parse_comparison.
\*   parse_call: parse_range down to parse_call.
\*   postfix: the while loop of parse_call (index accesses).
\*   parse_primary: an identifier or a list literal.
\*   parse_list_literal: after the opening bracket, no element or one (a
\*     second one would need a comma).
RECURSIVE Parser(_, _, _, _, _, _)
Parser(rule, tokens, pos, expr, nodes, async_) ==
  CASE rule = "parse" ->
         IF tokens[pos].type = "EOF" THEN Parsed(NoTree, pos, nodes, FALSE)
         ELSE LET stmt == Parser("parse_pipeline", tokens, pos, NoTree, <<>>, FALSE) IN
              IF ~stmt.ok THEN ParseError
              ELSE Parser("parse", tokens, stmt.pos, NoTree, Append(nodes, stmt.node), FALSE)
    [] rule = "parse_pipeline" ->
         LET value == Parser("parse_comparison", tokens, pos, NoTree, <<>>, FALSE) IN
         IF ~value.ok THEN ParseError
         ELSE IF tokens[value.pos].type \notin {"PIPELINE", "ASYNC_PIPELINE"} THEN value
         ELSE LET s == Parser("stages", tokens, value.pos, NoTree, <<>>, FALSE) IN
              IF ~s.ok THEN ParseError
              ELSE Parsed([Tree("Pipeline", <<>>, <<value.node>> \o s.nodes)
                             EXCEPT !.async_ = s.async_], s.pos, <<>>, FALSE)
    [] rule = "stages" ->
         IF tokens[pos].type \in {"PIPELINE", "ASYNC_PIPELINE"}
         THEN LET stage == Parser("parse_comparison", tokens, pos + 1, NoTree, <<>>, FALSE) IN
              IF ~stage.ok THEN ParseError
              ELSE Parser("stages", tokens, stage.pos, NoTree, Append(nodes, stage.node),
                          async_ \/ tokens[pos].type = "ASYNC_PIPELINE")
         ELSE Parsed(NoTree, pos, nodes, async_)
    [] rule = "parse_comparison" ->
         LET left == Parser("parse_call", tokens, pos, NoTree, <<>>, FALSE) IN
         IF ~left.ok THEN ParseError
         ELSE IF tokens[left.pos].type # "GT" THEN left
         ELSE LET c == Parser("operands", tokens, left.pos, NoTree, <<left.node>>, FALSE) IN
              IF ~c.ok THEN ParseError
              ELSE Parsed(Tree(IF Len(c.nodes) = 2 THEN "BinaryOp" ELSE "Comparison",
                               <<">">>, c.nodes), c.pos, <<>>, FALSE)
    [] rule = "operands" ->
         IF tokens[pos].type = "GT"
         THEN LET operand == Parser("parse_call", tokens, pos + 1, NoTree, <<>>, FALSE) IN
              IF ~operand.ok THEN ParseError
              ELSE Parser("operands", tokens, operand.pos, NoTree,
                          Append(nodes, operand.node), FALSE)
         ELSE Parsed(NoTree, pos, nodes, FALSE)
    [] rule = "parse_call" ->
         LET primary == Parser("parse_primary", tokens, pos, NoTree, <<>>, FALSE) IN
         IF ~primary.ok THEN ParseError
         ELSE Parser("postfix", tokens, primary.pos, primary.node, <<>>, FALSE)
    [] rule = "postfix" ->
         IF tokens[pos].type = "LBRACKET"
         THEN LET index == Parser("parse_pipeline", tokens, pos + 1, NoTree, <<>>, FALSE) IN
              IF ~index.ok THEN ParseError
              ELSE IF tokens[index.pos].type # "RBRACKET" THEN ParseError
              ELSE Parser("postfix", tokens, index.pos + 1,
                          Tree("IndexAccess", <<>>, <<expr, index.node>>), <<>>, FALSE)
         ELSE Parsed(expr, pos, <<>>, FALSE)
    [] rule = "parse_primary" ->
         IF tokens[pos].type = "IDENTIFIER"
         THEN Parsed(Tree("Identifier", tokens[pos].value, <<>>), pos + 1, <<>>, FALSE)
         ELSE IF tokens[pos].type = "LBRACKET"
         THEN Parser("parse_list_literal", tokens, pos + 1, NoTree, <<>>, FALSE)
         ELSE ParseError
    [] rule = "parse_list_literal" ->
         IF tokens[pos].type = "RBRACKET"
         THEN Parsed(Tree("ListLiteral", <<>>, <<>>), pos + 1, <<>>, FALSE)
         ELSE LET element == Parser("parse_pipeline", tokens, pos, NoTree, <<>>, FALSE) IN
              IF ~element.ok THEN ParseError
              ELSE IF tokens[element.pos].type # "RBRACKET" THEN ParseError
              ELSE Parsed(Tree("ListLiteral", <<>>, <<element.node>>), element.pos + 1,
                          <<>>, FALSE)

\* Parser(tokens).parse(): [ok, body].
parse(tokens) ==
  LET r == Parser("parse", tokens, 1, NoTree, <<>>, FALSE) IN
  [ok |-> r.ok, body |-> r.nodes]

\* The front end on a source: [ok, body].
parse_source(src) ==
  LET t == tokenize(src, 1) IN
  IF ~t.ok THEN [ok |-> FALSE, body |-> <<>>] ELSE parse(t.tokens)

\* The sources: up to MaxWords words, each a one-letter name, "->", "~>",
\* "!" or ">", written without blanks.
MaxWords == 4

Words == {<<"a">>, <<"f">>, <<"g">>, <<"-", ">">>, <<"~", ">">>, <<"!">>, <<">">>}

RECURSIVE Flatten(_)
Flatten(ws) == IF ws = <<>> THEN <<>> ELSE Head(ws) \o Flatten(Tail(ws))

Sources == {Flatten(ws) : ws \in SeqsUpTo(Words, MaxWords)}

InitSource ==
  /\ Start
  /\ ast_node \in {[node |-> "Source", source |-> src, body |-> <<>>] : src \in Sources}

\* Lexer(source).tokenize() and Parser(tokens).parse(), as the runner calls
\* them; the program is what is then under evaluation.
parse_program ==
  /\ ast_node.node = "Source"
  /\ LET r == parse_source(ast_node.source) IN
       /\ ast_node' = [ast_node EXCEPT !.node = "Program", !.body = r.body]
       /\ exc' = IF r.ok THEN NoExc ELSE RiftError("ParseError")
  /\ hist' = Hist("parse")
  /\ UNCHANGED <<envs, current_env, functions, stack, result, steps, modules, loads,
               objects, threads>>

NextSource == parse_program

SpecSource == InitSource /\ [][NextSource]_vars

(***************************************************************************)
(* Member access on an instance: o.name and the call o.name(arg).          *)
(***************************************************************************)
\* RiftInstance.set_property.
set_property(inst, name, value) ==
  [inst EXCEPT !.properties = [n \in (DOMAIN @) \cup {name} |->
                                 IF n = name THEN value ELSE @[n]]]

BoundMethodV(instance, method) == [t |-> "RiftBoundMethod", v |-> <<instance, method>>]

\* _eval_MemberAccess on the instance `obj` (inst is its state):
\* [exc, value, how].
MemberAccess(classes, inst, obj, name) ==
  LET property == get_property(classes, inst, name)
      method == get_method(classes, inst, name)
  IN IF property.ok THEN [exc |-> NoExc, value |-> property.value, how |-> "property"]
     ELSE IF method.ok
     THEN [exc |-> NoExc, value |-> BoundMethodV(obj.v, method.value.v), how |-> "method"]
     ELSE [exc |-> RiftError("NameError"), value |-> NoneV, how |-> "neither"]

eval_MemberAccess(obj, name) ==
  /\ CanRun
  /\ LET r == MemberAccess(ast_node.classes, ast_node.instance, obj, name) IN
     Apply(Upd(envs, current_env, stack, r.exc,
               IF r.exc = NoExc THEN r.value ELSE result,
               [Hist("MemberAccess") EXCEPT !.names = {name}, !.how = r.how]))
  /\ steps' = steps + 1
  /\ UNCHANGED functions

\* _call_bound_method up to the start of the body.
call_bound_method(E, cur, stk, bound, args, expr) ==
  LET fid == bound.v[2]
      func == functions[fid]
      E1 == call_scope(E, func, cur)
      env == Len(E1)
      E2 == Declare(E1, env, "me", InstanceV(bound.v[1]), "bind")
      b == bind_parameters(E2, cur, env, func, args)
      f == [Frame(func.kind, expr) EXCEPT
              !.env = env, !.prev_env = cur, !.fn = fid, !.vis = Visible(E, cur)]
      h == [Hist("Call") EXCEPT !.kind = func.kind, !.fn = fid, !.env = env,
                                !.last = expr, !.names = {expr.name}]
  IN IF b.exc # NoExc THEN Upd(b.envs, cur, stk, b.exc, result, h)
     ELSE Upd(b.envs, env, Append(stk, f), NoExc, NoneV, h)

\* _eval_Call of o.name(arg): the callee is the member access, _call takes
\* a bound method and refuses a property value.
eval_CallMember(obj, name, arg) ==
  /\ CanNest
  /\ LET callee == MemberAccess(ast_node.classes, ast_node.instance, obj, name)
         expr == Expr("MethodCall", name, "", arg.v, 1)
         h == [Hist("Call") EXCEPT !.names = {name}]
     IN Apply(IF callee.exc # NoExc
              THEN Upd(envs, current_env, stack, callee.exc, result, h)
              ELSE IF callee.value.t = "RiftBoundMethod"
              THEN call_bound_method(envs, current_env, stack, callee.value, <<arg>>, expr)
              ELSE Upd(envs, current_env, stack, RiftError("TypeError"), result, h))
  /\ steps' = steps + 1
  /\ UNCHANGED functions

\* The classes: A, and B that extends A; each declares or not a property p
\* (with its own default) and methods p and m.  The instance is one of A or
\* of B, as made or after its constructor has set p.
MethodNames == {"p", "m"}
MemberNames == {"p", "m", "z"}
Methods == <<[c |-> 1, name |-> "p"], [c |-> 1, name |-> "m"],
             [c |-> 2, name |-> "p"], [c |-> 2, name |-> "m"]>>
MethodsOf(c, names) ==
  [n \in names |-> FuncV(CHOOSE i \in 1..Len(Methods) : Methods[i] = [c |-> c, name |-> n])]
PropertiesOf(c, names) == [n \in names |-> IntV(4 + c)]
ClassTables ==
  {<<RiftClass("A", MethodsOf(1, ma), PropertiesOf(1, pa), 0),
     RiftClass("B", MethodsOf(2, mb), PropertiesOf(2, pb), 1)>> :
     ma \in SUBSET MethodNames, mb \in SUBSET MethodNames,
     pa \in SUBSET {"p"}, pb \in SUBSET {"p"}}
Instances(classes) ==
  UNION {{RiftInstance(classes, c), set_property(RiftInstance(classes, c), "p", IntV(7))} :
           c \in {1, 2}}
MemberAccesses ==
  {[node |-> "MemberAccess", classes |-> classes, instance |-> inst, property |-> name] :
     classes \in ClassTables, inst \in UNION {Instances(cl) : cl \in ClassTables},
     name \in MemberNames}

InitMember ==
  /\ ast_node \in {n \in MemberAccesses : n.instance \in Instances(n.classes)}
  /\ envs = GlobalEnvironment
  /\ current_env = 1
  /\ functions = [i \in 1..Len(Methods) |-> RiftFunction("method", 1, Methods[i].name, "")]
  /\ stack = <<>>
  /\ exc = NoExc
  /\ result = NoneV
  /\ steps = 0
  /\ hist = Hist("init")
  /\ modules = <<>>
  /\ loads = <<>>
  /\ objects = <<>>
  /\ threads = <<>>

NextMember ==
  \/ eval_MemberAccess(InstanceV(1), ast_node.property)
  \/ eval_CallMember(InstanceV(1), ast_node.property, IntV(0))
  \/ \E name \in {"me", "x"} : eval_Identifier(name)
  \/ BlockDone
  \/ Unwind

SpecMember == InitMember /\ [][NextMember]_vars

(***************************************************************************)
(* Index access: object~index! and the safe form object?~index!, on lists  *)
(* and on texts.  A text whose characters matter is TextV of the sequence  *)
(* of its characters.                                                      *)
(***************************************************************************)
\* The host's obj[index] on a list or a text: indices from -len to -1 count
\* from the end; outside -len..len-1 it raises IndexError.
HostItem(obj, index) ==
  LET n == Len(obj.v)
      i == IF index < 0 THEN n + index ELSE index
  IN IF i < 0 \/ i >= n THEN Raised(HostError("IndexError"))
     ELSE Returned(IF obj.t = "text" THEN TextV(<<obj.v[i + 1]>>) ELSE obj.v[i + 1])

\* _eval_IndexAccess for a list or a text and an integer index:
\* [exc, value].
IndexAccess(obj, index, safe) ==
  IF safe /\ (index < 0 \/ index >= Len(obj.v)) THEN Returned(NoneV)
  ELSE LET item == HostItem(obj, index) IN
       IF item.exc # NoExc /\ safe THEN Returned(NoneV) ELSE item

eval_IndexAccess(obj, index, safe) ==
  /\ CanRun
  /\ LET r == IndexAccess(obj, index, safe) IN
     Apply(Upd(envs, current_env, stack, r.exc,
               IF r.exc = NoExc THEN r.value ELSE result,
               [Hist("IndexAccess") EXCEPT !.how = IF safe THEN "safe" ELSE ""]))
  /\ steps' = steps + 1
  /\ UNCHANGED functions

\* The index accesses: lists of numbers and texts of up to MaxLen elements,
\* indices from one before -MaxLen to one after MaxLen - 1, both forms.
IndexedValues ==
  {ListV(elements) : elements \in SeqsUpTo({IntV(0), IntV(1)}, MaxLen)}
    \cup {TextV(chars) : chars \in SeqsUpTo({"a", "b"}, MaxLen)}
Indices == (0 - MaxLen - 1)..MaxLen

InitIndex ==
  /\ Start
  /\ ast_node \in {[node |-> "IndexAccess", object |-> obj, index |-> index, safe |-> safe] :
                     obj \in IndexedValues, index \in Indices, safe \in BOOLEAN}

NextIndex == eval_IndexAccess(ast_node.object, ast_node.index, ast_node.safe)

SpecIndex == InitIndex /\ [][NextIndex]_vars

(***************************************************************************)
(* Binary operators + - * / and the compound assignments t op= value.      *)
(***************************************************************************)
\* The host's str() of a value (repr for the elements of a list, which
\* puts a text in quotes), as a sequence of characters.  The floats of the
\* model are whole numbers.
RECURSIVE Str(_, _)
Str(value, quoted) ==
  CASE value.t = "int" ->
         IF value.v < 0 THEN <<"-">> \o Str(IntV(0 - value.v), FALSE)
         ELSE IF value.v < 10
         THEN <<(<<"0", "1", "2", "3", "4", "5", "6", "7", "8", "9">>)[value.v + 1]>>
         ELSE Str(IntV(value.v \div 10), FALSE) \o Str(IntV(value.v % 10), FALSE)
    [] value.t = "float" -> Str(IntV(value.v), FALSE) \o <<".", "0">>
    [] value.t = "bool" -> IF value.v = 1 THEN <<"T", "r", "u", "e">>
                           ELSE <<"F", "a", "l", "s", "e">>
    [] value.t = "none" -> <<"N", "o", "n", "e">>
    [] value.t = "text" -> IF quoted THEN <<"'">> \o value.v \o <<"'">> ELSE value.v
    [] value.t = "list" ->
         IF value.v = <<>> THEN <<"[", "]">>
         ELSE LET rest == Str(ListV(Tail(value.v)), TRUE) IN
              <<"[">> \o Str(Head(value.v), TRUE)
                \o (IF Len(value.v) = 1 THEN <<>> ELSE <<",", " ">>) \o Tail(rest)

InPlace(op) ==
  CASE op = "+" -> "+=" [] op = "-" -> "-=" [] op = "*" -> "*=" [] op = "/" -> "/="

\* _eval_BinaryOp for + - * /: [exc, value].  + promotes to text when
\* either side is one, / refuses a right side equal to 0 before dividing,
\* and everything else is the host's operator; the `except TypeError` names
\* the TypeError of errors.py, which the host does not raise.
BinaryOp(op, left, right) ==
  IF op = "+" /\ (left.t = "text" \/ right.t = "text")
  THEN Returned(TextV(Str(left, FALSE) \o Str(right, FALSE)))
  ELSE IF op = "/" /\ PyEq(right, IntV(0))
  THEN Raised(RiftError("DivisionByZeroError"))
  ELSE LET c == Combine(InPlace(op), left, right) IN
       IF c.err # "" THEN Raised(HostError(c.err)) ELSE Returned(c.value)

\* The expression statement name op value.
eval_BinaryOp(name, op, value) ==
  /\ CanRun
  /\ LET left == Identifier(envs, current_env, name)
         r == IF left.exc # NoExc THEN Raised(left.exc) ELSE BinaryOp(op, left.value, value)
     IN Apply(Upd(envs, current_env, stack, r.exc,
                  IF r.exc = NoExc THEN r.value ELSE result,
                  [Hist("BinaryOp") EXCEPT !.names = {name}, !.kind = op]))
  /\ steps' = steps + 1
  /\ UNCHANGED functions

\* The statement name op= value.
eval_CompoundAssignment(name, op, value) ==
  /\ CanRun
  /\ LET r == AssignmentOf(envs, current_env, name, op, value) IN
     Apply(Upd(r.envs, current_env, stack, r.exc,
               IF r.exc = NoExc THEN r.value ELSE result,
               [Hist("Assignment") EXCEPT !.names = {name}, !.kind = op]))
  /\ steps' = steps + 1
  /\ UNCHANGED functions

\* The operands: numbers, a text, lists and none on either side; the
\* target t is a mutable variable that holds the left one.
Targets == {IntV(0), IntV(6), TextV(<<"a">>), ListV(<<IntV(0)>>), NoneV}
Operands == {IntV(0), IntV(3), TextV(<<"a">>), ListV(<<IntV(1)>>), NoneV}

InitOperator ==
  /\ ast_node \in {[node |-> "Assignment", target |-> "t", old |-> old,
                    operator |-> op, value |-> value] :
                     old \in Targets, op \in {"+", "-", "*", "/"}, value \in Operands}
  /\ envs = Declare(GlobalEnvironment, 1, ast_node.target, ast_node.old, "mut")
  /\ current_env = 1
  /\ functions = <<>>
  /\ stack = <<>>
  /\ exc = NoExc
  /\ result = NoneV
  /\ steps = 0
  /\ hist = Hist("init")
  /\ modules = <<>>
  /\ loads = <<>>
  /\ objects = <<>>
  /\ threads = <<>>

\* One statement is run: t op= value, or t op value.
NextOperator ==
  \/ steps = 0 /\ eval_CompoundAssignment(ast_node.target, InPlace(ast_node.operator),
                                          ast_node.value)
  \/ steps = 0 /\ eval_BinaryOp(ast_node.target, ast_node.operator, ast_node.value)

SpecOperator == InitOperator /\ [][NextOperator]_vars

(***************************************************************************)
(* Calls of host functions: name(arguments), name one of the host          *)
(* functions of the global scope.                                          *)
(***************************************************************************)
\* _eval_Call and the host branch of _call: callee(*args), with
\* `except TypeError` naming the TypeError of errors.py, which a host
\* function called with the wrong number of arguments does not raise.
call_host(E, cur, stk, name, args) ==
  LET callee == Identifier(E, cur, name)
      h == [Hist("Call") EXCEPT !.kind = "host", !.names = {name}, !.args = args]
  IN IF callee.exc # NoExc THEN Upd(E, cur, stk, callee.exc, result, h)
     ELSE IF callee.value.t = "builtin"
     THEN LET r == HostFunction(BuiltinNames[callee.value.v], args) IN
          Upd(E, cur, stk, r.exc, IF r.exc = NoExc THEN r.value ELSE result, h)
     ELSE Upd(E, cur, stk, RiftError("TypeError"), result, h)

eval_CallHost(name, args) ==
  /\ CanRun
  /\ Apply(call_host(envs, current_env, stack, name, args))
  /\ steps' = steps + 1
  /\ UNCHANGED functions

\* run_file: what the runner prints for an exception that leaves the
\* program.
run_file(x) == IF x.kind = "RiftError" THEN "Error" ELSE "Internal error"

\* The calls: len, abs and startsWith with up to MaxLen arguments, each a
\* number or a text.
HostCalls ==
  {[node |-> "Call", callee |-> name, arguments |-> args] :
     name \in {BuiltinNames[i] : i \in 1..Len(BuiltinNames)},
     args \in SeqsUpTo({IntV(0), TextV(<<"a">>)}, MaxLen)}

RECURSIVE DefineBuiltins(_, _)
DefineBuiltins(E, i) ==
  IF i > Len(BuiltinNames) THEN E
  ELSE DefineBuiltins(define(E, 1, BuiltinNames[i], HostV(BuiltinNames[i]), TRUE, FALSE),
                      i + 1)

InitHost ==
  /\ ast_node \in HostCalls
  /\ envs = DefineBuiltins(GlobalEnvironment, 1)
  /\ current_env = 1
  /\ functions = <<>>
  /\ stack = <<>>
  /\ exc = NoExc
  /\ result = NoneV
  /\ steps = 0
  /\ hist = Hist("init")
  /\ modules = <<>>
  /\ loads = <<>>
  /\ objects = <<>>
  /\ threads = <<>>

NextHost ==
  \/ eval_TryStatement(TRUE, "e", FALSE)
  \/ eval_CallHost(ast_node.callee, ast_node.arguments)
  \/ eval_Identifier("e")
  \/ BlockDone
  \/ Unwind

SpecHost == InitHost /\ [][NextHost]_vars

(***************************************************************************)
(* Imports: grab module, grab module as alias, grab module.item and        *)
(* grab module.*.  `modules` is Interpreter.modules, from module names to  *)
(* the mappings the loaders returned; a mapping is [id, name, exports],    *)
(* id telling the mapping objects apart (the n-th mapping made has id n).  *)
(* `loads` is a ghost: the names the loader was run for, in order.         *)
(***************************************************************************)
\* A reference to a mapping, and the value a mapping holds for an export
\* (ghost: tagged with the mapping it was taken from).
ModuleV(id) == [t |-> "map", v |-> id]
ExportV(id, item) == [t |-> "export", v |-> <<id, item>>]

\* The exports of the standard modules of the vocabulary; a name that is
\* no standard module gets the empty mapping.
Exports(name) ==
  CASE name = "math" -> <<"sqrt", "pi">>
    [] name = "json" -> <<"parse">>
    [] OTHER -> <<>>

\* _load_module: a new mapping.
load_module(name, id) == [id |-> id, name |-> name, exports |-> Exports(name)]

\* `module_name in self.modules` as it would be if nothing were ever found
\* in the cache.
is_loaded_never(mods, module_name) == FALSE /\ module_name \in DOMAIN mods

\* `module_name in self.modules`.
is_loaded(mods, module_name) == module_name \in DOMAIN mods

\* The wildcard loop: every export defined in the current scope.
RECURSIVE define_items(_, _, _, _)
define_items(E, cur, module, i) ==
  IF i > Len(module.exports) THEN E
  ELSE define_items(Declare(E, cur, module.exports[i],
                            ExportV(module.id, module.exports[i]), "bind"),
                    cur, module, i + 1)

\* _eval_ImportStatement; item is "" when no item is selected, alias is ""
\* when none is given.
eval_ImportStatement(module_name, item, alias, wildcard) ==
  /\ CanRun
  /\ LET loaded == is_loaded(modules, module_name)
         module == IF loaded THEN modules[module_name]
                   ELSE load_module(module_name, Len(loads) + 1)
         missing == ~wildcard /\ item # ""
                      /\ item \notin {module.exports[i] : i \in 1..Len(module.exports)}
     IN /\ modules' = IF loaded THEN modules
                      ELSE [n \in (DOMAIN modules) \cup {module_name} |->
                              IF n = module_name THEN module ELSE modules[n]]
        /\ loads' = IF loaded THEN loads ELSE Append(loads, module_name)
        /\ envs' = IF wildcard THEN define_items(envs, current_env, module, 1)
                   ELSE IF missing THEN envs
                   ELSE IF item # ""
                   THEN Declare(envs, current_env, item, ExportV(module.id, item), "bind")
                   ELSE Declare(envs, current_env, IF alias # "" THEN alias ELSE module_name,
                                ModuleV(module.id), "bind")
        /\ exc' = IF missing THEN RiftError("RuntimeError") ELSE NoExc
        /\ result' = IF missing THEN result ELSE NoneV
        /\ hist' = [Hist("ImportStatement") EXCEPT
                      !.names = {module_name},
                      !.args = <<item>>,
                      !.how = IF loaded THEN "cached" ELSE "loaded"]
  /\ steps' = steps + 1
  /\ UNCHANGED <<current_env, functions, stack, ast_node, objects, threads>>

\* The imports of the vocabulary.
ModuleNames == {"math", "json", "nosuch"}
ImportItems == {"", "sqrt", "parse", "zz"}
Aliases == {"", "m"}

NextImport ==
  \/ \E module_name \in ModuleNames, alias \in Aliases :
       eval_ImportStatement(module_name, "", alias, FALSE)
  \/ \E module_name \in ModuleNames, item \in ImportItems \ {""} :
       eval_ImportStatement(module_name, item, "", FALSE)
  \/ \E module_name \in ModuleNames : eval_ImportStatement(module_name, "", "", TRUE)
  \/ \E name \in {"math", "m", "sqrt"} : eval_Identifier(name)

SpecImport == Init /\ [][NextImport]_vars

(***************************************************************************)
(* Generator functions: conduit *f(p) { ... yield v ... }.  The            *)
(* declaration records is_generator; _call_function never reads it.        *)
(***************************************************************************)
\* _eval_FunctionDeclaration of a declaration whose generator mark is set.
eval_GeneratorDeclaration ==
  /\ CanRun
  /\ Len(functions) < MaxFuncs
  /\ functions' = Append(functions,
                         [RiftFunction("function", current_env, "f", "")
                            EXCEPT !.is_generator = TRUE])
  /\ LET func == FuncV(Len(functions) + 1) IN
     Apply(Upd(Declare(envs, current_env, "f", func, "bind"), current_env,
               Declared(Note(stack, NoExpr), {"f"}), NoExc, func,
               Hist("FunctionDeclaration")))
  /\ steps' = steps + 1

\* Generator functions with yields, calls of them at the top level, in
\* loops and in try blocks.
NextGenerator ==
  \/ eval_GeneratorDeclaration
  \/ \E lit \in 1..2 : eval_Yield(IntV(lit))
  \/ eval_Call("f", 0, 1)
  \/ eval_GiveStatement(IntV(0))
  \/ \E cond \in BOOLEAN : eval_WhileStatement(cond)
  \/ eval_RepeatStatement(1, "")
  \/ eval_TryStatement(TRUE, "e", FALSE)
  \/ BlockDone
  \/ Unwind

SpecGenerator == Init /\ [][NextGenerator]_vars

(***************************************************************************)
(* The async module: RiftPromise.  `objects` is the sequence of the        *)
(* objects made so far; a promise is [cls, state, value, error,            *)
(* then_callbacks, catch_callbacks, finally_callbacks, lock], lock being   *)
(* the thread that holds its threading.Lock (0: free).  `threads` is the   *)
(* sequence of the threads started so far: [target, self, arg, index, pc,  *)
(* ret, tmp]; thread t runs target on object self with argument arg (and   *)
(* the index that functools.partial bound), pc is where it stands ("done"  *)
(* when it has returned or raised), ret what it returned or raised and tmp *)
(* a value it has read.  A thread may be switched out between any two      *)
(* statements; statements executed while holding a lock are kept apart     *)
(* only where code that does not take the lock can see the difference.     *)
(***************************************************************************)
MaxThreads == 3

\* The evaluator proper stands still while the library runs.
interpreter == <<envs, current_env, functions, stack, exc, result, steps, hist,
                 ast_node, modules, loads>>

RiftPromise ==
  [cls |-> "RiftPromise", state |-> "pending", value |-> NoneV, error |-> NoneV,
   then_callbacks |-> <<>>, catch_callbacks |-> <<>>, finally_callbacks |-> <<>>,
   lock |-> 0]

Thread(target, self, arg) ==
  [target |-> target, self |-> self, arg |-> arg, index |-> 0, pc |-> "begin",
   ret |-> NoneV, tmp |-> 0]

IsPromise(o) == o \in DOMAIN objects /\ objects[o].cls = "RiftPromise"

\* _execute_callback for each callback of a list: one new thread each,
\* calling the callback with args.
RECURSIVE execute_callbacks(_, _, _)
execute_callbacks(T, callbacks, arg) ==
  IF callbacks = <<>> THEN T
  ELSE LET callback == Head(callbacks) IN
       execute_callbacks(Append(T, [Thread(callback.fn, callback.self, arg)
                                      EXCEPT !.index = callback.index]),
                         Tail(callbacks), arg)

\* A thread returns (or raises) ret.
Finish(T, t, ret) == [T EXCEPT ![t].pc = "done", ![t].ret = ret]

\* The host raises Exception(error) / TimeoutError.
Exception(error) == [t |-> "Exception", v |-> error]

\* _resolve up to `self._state = 'fulfilled'`, _reject up to
\* `self._state = 'rejected'`: the lock is taken and, unless the promise is
\* settled already, the state is written.
settle_state(t) ==
  LET self == threads[t].self
      to == IF threads[t].target = "resolve" THEN "fulfilled" ELSE "rejected" IN
  /\ threads[t].target \in {"resolve", "reject"}
  /\ threads[t].pc = "begin"
  /\ objects[self].lock = 0
  /\ IF objects[self].state # "pending"
     THEN /\ threads' = Finish(threads, t, NoneV)
          /\ UNCHANGED objects
     ELSE /\ objects' = [objects EXCEPT ![self].state = to, ![self].lock = t]
          /\ threads' = [threads EXCEPT ![t].pc = "value"]
  /\ UNCHANGED interpreter

\* _resolve from `self._value = value`, _reject from `self._error = error`:
\* the value is written, the callbacks are started and the lock is given
\* back.
settle_value(t) ==
  LET self == threads[t].self
      p == objects[self]
      arg == threads[t].arg IN
  /\ threads[t].target \in {"resolve", "reject"}
  /\ threads[t].pc = "value"
  /\ objects' = [objects EXCEPT
                   ![self] = IF threads[t].target = "resolve"
                             THEN [p EXCEPT !.value = arg, !.lock = 0]
                             ELSE [p EXCEPT !.error = arg, !.lock = 0]]
  /\ threads' = execute_callbacks(
                  execute_callbacks(Finish(threads, t, NoneV),
                                    IF threads[t].target = "resolve"
                                    THEN p.then_callbacks ELSE p.catch_callbacks, arg),
                  p.finally_callbacks, NoneV)
  /\ UNCHANGED interpreter

\* then(callback) and catch(callback): [objects, threads] after the call.
then_catch(O, T, self, kind, callback) ==
  LET p == O[self] IN
  IF p.state = "pending"
  THEN [objects |-> [O EXCEPT
                       ![self] = IF kind = "then"
                                 THEN [p EXCEPT !.then_callbacks = Append(@, callback)]
                                 ELSE [p EXCEPT !.catch_callbacks = Append(@, callback)]],
        threads |-> T]
  ELSE [objects |-> O,
        threads |-> IF kind = "then" /\ p.state = "fulfilled"
                    THEN execute_callbacks(T, <<callback>>, p.value)
                    ELSE IF kind = "catch" /\ p.state = "rejected"
                    THEN execute_callbacks(T, <<callback>>, p.error)
                    ELSE T]

\* then(callback) or catch(callback), called by the program; the call
\* waits for the promise's lock.
register(self, kind, callback) ==
  LET r == then_catch(objects, threads, self, kind, callback) IN
  /\ objects[self].lock = 0
  /\ objects' = r.objects
  /\ threads' = r.threads
  /\ UNCHANGED interpreter

\* await_: the loop `while self._state == 'pending'` is left.
await_state(t) ==
  /\ threads[t].target = "await_"
  /\ threads[t].pc = "begin"
  /\ objects[threads[t].self].state # "pending"
  /\ threads' = [threads EXCEPT ![t].pc = "settled"]
  /\ UNCHANGED objects
  /\ UNCHANGED interpreter

\* await_ from `if self._state == 'rejected'`.
await_value(t) ==
  LET p == objects[threads[t].self] IN
  /\ threads[t].target = "await_"
  /\ threads[t].pc = "settled"
  /\ threads' = Finish(threads, t, IF p.state = "rejected" THEN Exception(p.error)
                                   ELSE p.value)
  /\ UNCHANGED objects
  /\ UNCHANGED interpreter

\* A callback of the program: it is called with the value.
Noted == [fn |-> "note", self |-> 0, index |-> 0]

call_note(t) ==
  /\ threads[t].target = "note"
  /\ threads[t].pc = "begin"
  /\ threads' = Finish(threads, t, threads[t].arg)
  /\ UNCHANGED objects
  /\ UNCHANGED interpreter

\* The program starts a thread that calls target on object self.
start(target, self, arg) ==
  /\ Len(threads) < MaxThreads
  /\ threads' = Append(threads, Thread(target, self, arg))
  /\ UNCHANGED objects
  /\ UNCHANGED interpreter

Settled == {IntV(1), IntV(2)}

InitPromise ==
  /\ NewInterpreter
  /\ ast_node = NoNode
  /\ objects = <<RiftPromise>>
  /\ threads = <<>>

\* One promise, settled and awaited by concurrent threads.
NextPromise ==
  \/ \E target \in {"resolve", "reject"}, arg \in Settled : start(target, 1, arg)
  \/ start("await_", 1, NoneV)
  \/ \E kind \in {"then", "catch"} :
       /\ Len(objects[1].then_callbacks) + Len(objects[1].catch_callbacks) < 1
       /\ Len(threads) < MaxThreads
       /\ register(1, kind, Noted)
  \/ \E t \in DOMAIN threads : settle_state(t)
  \/ \E t \in DOMAIN threads : settle_value(t)
  \/ \E t \in DOMAIN threads : await_state(t)
  \/ \E t \in DOMAIN threads : await_value(t)
  \/ \E t \in DOMAIN threads : call_note(t)

SpecPromise == InitPromise /\ [][NextPromise]_vars

(***************************************************************************)
(* all(promises).  The executor's locals results, completed and rejected   *)
(* are shared by the callbacks it registers; they are kept in an object    *)
(* [cls |-> "promise_all", promises, results, completed, rejected,         *)
(* promise], promise being the promise that all() returns.  Indices are    *)
(* counted from 1.                                                         *)
(***************************************************************************)
MaxInputs == 2

\* The object of the one call of all() made so far, or 0.
AllCall ==
  IF \E o \in DOMAIN objects : objects[o].cls = "promise_all"
  THEN CHOOSE o \in DOMAIN objects : objects[o].cls = "promise_all"
  ELSE 0

\* The loop of the executor: promise.then(partial(on_resolve, i)).catch(on_reject)
\* for every input from the i-th on.
RECURSIVE subscribe(_, _, _, _, _)
subscribe(O, T, promises, i, cells) ==
  IF i > Len(promises) THEN [objects |-> O, threads |-> T]
  ELSE LET a == then_catch(O, T, promises[i], "then",
                           [fn |-> "on_resolve", self |-> cells, index |-> i])
           b == then_catch(a.objects, a.threads, promises[i], "catch",
                           [fn |-> "on_reject", self |-> cells, index |-> 0])
       IN subscribe(b.objects, b.threads, promises, i + 1, cells)

\* promise_all(promises) for a non-empty list of promises: RiftPromise(executor).
promise_all(promises) ==
  LET promise == Len(objects) + 1
      cells == Len(objects) + 2
      made == objects \o <<RiftPromise,
                           [cls |-> "promise_all", promises |-> promises,
                            results |-> [i \in 1..Len(promises) |-> NoneV],
                            completed |-> 0, rejected |-> FALSE, promise |-> promise]>>
      r == subscribe(made, threads, promises, 1, cells)
  IN /\ AllCall = 0
     /\ \A i \in 1..Len(promises) : objects[promises[i]].lock = 0
     /\ objects' = r.objects
     /\ threads' = r.threads
     /\ UNCHANGED interpreter

\* on_resolve up to the read of completed[0] in `completed[0] += 1`.
on_resolve_begin(t) ==
  LET cells == threads[t].self IN
  /\ threads[t].target = "on_resolve"
  /\ threads[t].pc = "begin"
  /\ IF objects[cells].rejected
     THEN /\ threads' = Finish(threads, t, NoneV)
          /\ UNCHANGED objects
     ELSE /\ objects' = [objects EXCEPT ![cells].results[threads[t].index] = threads[t].arg]
          /\ threads' = [threads EXCEPT ![t].pc = "add", ![t].tmp = objects[cells].completed]
  /\ UNCHANGED interpreter

\* The write of `completed[0] += 1`.
on_resolve_add(t) ==
  /\ threads[t].target = "on_resolve"
  /\ threads[t].pc = "add"
  /\ objects' = [objects EXCEPT ![threads[t].self].completed = threads[t].tmp + 1]
  /\ threads' = [threads EXCEPT ![t].pc = "test"]
  /\ UNCHANGED interpreter

\* `if completed[0] == len(promises): resolve(results)`: the thread goes on
\* in _resolve of the promise that all() returned.
on_resolve_test(t) ==
  LET c == objects[threads[t].self] IN
  /\ threads[t].target = "on_resolve"
  /\ threads[t].pc = "test"
  /\ threads' = IF c.completed = Len(c.promises)
                THEN [threads EXCEPT ![t] = Thread("resolve", c.promise, ListV(c.results))]
                ELSE Finish(threads, t, NoneV)
  /\ UNCHANGED objects
  /\ UNCHANGED interpreter

\* on_reject: `if not rejected[0]`.
on_reject_begin(t) ==
  /\ threads[t].target = "on_reject"
  /\ threads[t].pc = "begin"
  /\ threads' = IF objects[threads[t].self].rejected THEN Finish(threads, t, NoneV)
                ELSE [threads EXCEPT ![t].pc = "set"]
  /\ UNCHANGED objects
  /\ UNCHANGED interpreter

\* on_reject: `rejected[0] = True; reject(error)`: the thread goes on in
\* _reject of the promise that all() returned.
on_reject_set(t) ==
  LET cells == threads[t].self IN
  /\ threads[t].target = "on_reject"
  /\ threads[t].pc = "set"
  /\ objects' = [objects EXCEPT ![cells].rejected = TRUE]
  /\ threads' = [threads EXCEPT
                   ![t] = Thread("reject", objects[cells].promise, threads[t].arg)]
  /\ UNCHANGED interpreter

\* Some thread settles input promise p, which nothing has settled yet.
settle_input(p, target, arg) ==
  /\ \A t \in DOMAIN threads : threads[t].self # p
  /\ threads' = Append(threads, Thread(target, p, arg))
  /\ UNCHANGED objects
  /\ UNCHANGED interpreter

\* The steps of the threads.
Run(t) ==
  /\ t \in DOMAIN threads
  /\ \/ settle_state(t)
     \/ settle_value(t)
     \/ on_resolve_begin(t)
     \/ on_resolve_add(t)
     \/ on_resolve_test(t)
     \/ on_reject_begin(t)
     \/ on_reject_set(t)

InitAll ==
  /\ NewInterpreter
  /\ ast_node = NoNode
  /\ objects \in {[i \in 1..n |-> RiftPromise] : n \in 1..MaxInputs}
  /\ threads = <<>>

Inputs == {o \in DOMAIN objects : IsPromise(o) /\ (AllCall # 0 => o # objects[AllCall].promise)}

\* all() is called once on the list of the input promises, which other
\* threads settle before, while or after it is called.
NextAll ==
  \/ promise_all([i \in 1..Cardinality(Inputs) |-> i])
  \/ \E p \in Inputs, arg \in Settled : settle_input(p, "resolve", arg)
  \/ \E p \in Inputs : settle_input(p, "reject", IntV(0))
  \/ \E t \in DOMAIN threads : settle_state(t)
  \/ \E t \in DOMAIN threads : settle_value(t)
  \/ \E t \in DOMAIN threads : on_resolve_begin(t)
  \/ \E t \in DOMAIN threads : on_resolve_add(t)
  \/ \E t \in DOMAIN threads : on_resolve_test(t)
  \/ \E t \in DOMAIN threads : on_reject_begin(t)
  \/ \E t \in DOMAIN threads : on_reject_set(t)

\* Every started thread is scheduled again and again; an input has the
\* thread that settles it and the thread of the one callback that runs.
SpecAll == InitAll /\ [][NextAll]_vars /\ \A t \in 1..(2 * MaxInputs) : WF_vars(Run(t))

(***************************************************************************)
(* Mutex: [cls |-> "Mutex", locked, waiting, lock] and two ghosts:         *)
(* released, the lock() promises whose hold an unlock() has ended, and     *)
(* last, the last call made on the mutex.  waiting holds the promises      *)
(* whose resolve functions wait.  lock() and unlock() run their bodies     *)
(* under the mutex's threading.Lock, so calls from different threads come  *)
(* one after the other; the promise that lock() makes is known to no       *)
(* other thread before lock() returns.                                     *)
(***************************************************************************)
MaxLocks == 3

Mutex ==
  [cls |-> "Mutex", locked |-> FALSE, waiting |-> <<>>, lock |-> 0,
   released |-> {}, last |-> [op |-> "", promise |-> 0]]

\* resolve(True) of a pending promise that has no callbacks and whose lock
\* is free.
resolved(p, value) == [p EXCEPT !.state = "fulfilled", !.value = value]

\* The lock() promises that are fulfilled and that no unlock() has ended.
Holders ==
  {p \in DOMAIN objects : IsPromise(p) /\ objects[p].state = "fulfilled"} \ objects[1].released

\* `if not self._locked` as it would be if the test always succeeded.
is_free_always(mutex) == TRUE \/ ~mutex.locked

\* `if not self._locked`.
is_free(mutex) == ~mutex.locked

\* Mutex.lock.
lock ==
  LET mutex == objects[1]
      promise == Len(objects) + 1 IN
  /\ Len(objects) <= MaxLocks
  /\ mutex.lock = 0
  /\ objects' =
       IF is_free(mutex)
       THEN Append([objects EXCEPT ![1].locked = TRUE,
                                   ![1].last = [op |-> "lock", promise |-> promise]],
                   resolved(RiftPromise, BoolV(TRUE)))
       ELSE Append([objects EXCEPT ![1].waiting = Append(@, promise),
                                   ![1].last = [op |-> "lock", promise |-> promise]],
                   RiftPromise)
  /\ UNCHANGED threads
  /\ UNCHANGED interpreter

\* Mutex.unlock.
unlock ==
  LET mutex == objects[1] IN
  /\ mutex.lock = 0
  /\ IF mutex.waiting # <<>>
     THEN LET promise == Head(mutex.waiting) IN
          /\ objects[promise].lock = 0
          /\ objects' = [objects EXCEPT
                           ![1].waiting = Tail(@),
                           ![1].released = @ \cup Holders,
                           ![1].last = [op |-> "unlock", promise |-> promise],
                           ![promise] = resolved(@, BoolV(TRUE))]
     ELSE objects' = [objects EXCEPT
                        ![1].locked = FALSE,
                        ![1].released = @ \cup Holders,
                        ![1].last = [op |-> "unlock", promise |-> 0]]
  /\ UNCHANGED threads
  /\ UNCHANGED interpreter

InitMutex ==
  /\ NewInterpreter
  /\ ast_node = NoNode
  /\ objects = <<Mutex>>
  /\ threads = <<>>

\* lock() and unlock() in any order, and threads that await the promises.
NextMutex ==
  \/ lock
  \/ unlock
  \/ \E p \in DOMAIN objects : IsPromise(p) /\ start("await_", p, NoneV)
  \/ \E t \in DOMAIN threads : await_state(t)
  \/ \E t \in DOMAIN threads : await_value(t)

SpecMutex == InitMutex /\ [][NextMutex]_vars

(***************************************************************************)
(* The events module: EventEmitter, for one event name.  listeners is      *)
(* self._listeners[event], a sequence of [callback, once, priority, reg];  *)
(* reg is a ghost, the number of the on()/once() call that made the entry, *)
(* and calls (ghost) counts the invocations of each registration.  frames  *)
(* is the host's call stack of emit(): a frame is [listeners_copy, i,      *)
(* running], i the position in the copy and running whether the callback   *)
(* of that listener is being executed.  Listeners are callbacks of the     *)
(* program; while one runs it may call on, once, off and emit itself.      *)
(***************************************************************************)
MaxListeners == 2
MaxEmits == 2

EventEmitter ==
  [cls |-> "EventEmitter", listeners |-> <<>>, frames |-> <<>>, calls |-> <<>>,
   emits |-> 0]

Callbacks == {"f", "g"}

\* list.sort(key=lambda x: -x['priority']) after an append: the new entry
\* goes behind the entries of its priority or a higher one.
RECURSIVE sorted_append(_, _)
sorted_append(listeners, listener) ==
  IF listeners = <<>> THEN <<listener>>
  ELSE IF Head(listeners).priority >= listener.priority
  THEN <<Head(listeners)>> \o sorted_append(Tail(listeners), listener)
  ELSE <<listener>> \o listeners

\* [l for l in listeners if l['callback'] != callback]
RECURSIVE without(_, _)
without(listeners, callback) ==
  IF listeners = <<>> THEN <<>>
  ELSE IF Head(listeners).callback = callback THEN without(Tail(listeners), callback)
  ELSE <<Head(listeners)>> \o without(Tail(listeners), callback)

\* off(event, callback); callback "" stands for None.
off(emitter, callback) ==
  [emitter EXCEPT !.listeners = IF callback = "" THEN <<>> ELSE without(@, callback)]

\* The program is where it can make a call: at the top level or in the
\* body of a listener.
AtCall == IF objects[1].frames = <<>> THEN TRUE ELSE Top(objects[1].frames).running

\* on(event, callback, priority) and once(event, callback, priority).
register_listener(callback, once, priority) ==
  LET emitter == objects[1]
      listener == [callback |-> callback, once |-> once, priority |-> priority,
                   reg |-> Len(emitter.calls) + 1] IN
  /\ AtCall
  /\ Len(emitter.calls) < MaxListeners
  /\ objects' = [objects EXCEPT
                   ![1].listeners = sorted_append(@, listener),
                   ![1].calls = Append(@, [once |-> once, n |-> 0])]
  /\ UNCHANGED threads
  /\ UNCHANGED interpreter

\* off(event, callback) and off(event), called by the program.
remove_listener(callback) ==
  /\ AtCall
  /\ objects' = [objects EXCEPT ![1] = off(@, callback)]
  /\ UNCHANGED threads
  /\ UNCHANGED interpreter

\* emit(event) up to the loop: False without listeners, else the copy.
emit ==
  LET emitter == objects[1] IN
  /\ AtCall
  /\ emitter.emits < MaxEmits
  /\ objects' = [objects EXCEPT
                   ![1].emits = @ + 1,
                   ![1].frames =
                     IF emitter.listeners = <<>> THEN @
                     ELSE Append(@, [listeners_copy |-> emitter.listeners, i |-> 1,
                                     running |-> FALSE])]
  /\ UNCHANGED threads
  /\ UNCHANGED interpreter

\* The loop of emit calls the next listener of its copy.
emit_call ==
  LET emitter == objects[1]
      frame == Top(emitter.frames)
      listener == frame.listeners_copy[frame.i] IN
  /\ emitter.frames # <<>>
  /\ ~frame.running
  /\ objects' = [objects EXCEPT
                   ![1].frames = SetTop(@, [frame EXCEPT !.running = TRUE]),
                   ![1].calls[listener.reg].n = @ + 1]
  /\ UNCHANGED threads
  /\ UNCHANGED interpreter

\* The listener returns: a once listener is taken off, and the loop goes to
\* the next listener or emit returns True.
emit_next ==
  LET emitter == objects[1]
      frame == Top(emitter.frames)
      listener == frame.listeners_copy[frame.i]
      after == IF listener.once THEN off(emitter, listener.callback) ELSE emitter IN
  /\ emitter.frames # <<>>
  /\ frame.running
  /\ objects' = [objects EXCEPT
                   ![1] = [after EXCEPT
                             !.frames = IF frame.i < Len(frame.listeners_copy)
                                        THEN SetTop(@, [frame EXCEPT !.i = @ + 1,
                                                                     !.running = FALSE])
                                        ELSE Pop(@)]]
  /\ UNCHANGED threads
  /\ UNCHANGED interpreter

InitEvents ==
  /\ NewInterpreter
  /\ ast_node = NoNode
  /\ objects = <<EventEmitter>>
  /\ threads = <<>>

NextEvents ==
  \/ \E callback \in Callbacks, once \in BOOLEAN, priority \in 0..1 :
       register_listener(callback, once, priority)
  \/ \E callback \in Callbacks \cup {""} : remove_listener(callback)
  \/ emit
  \/ emit_call
  \/ emit_next

SpecEvents == InitEvents /\ [][NextEvents]_vars

(***************************************************************************)
(* The collections module: LRUCache.  cache is the OrderedDict, a sequence *)
(* of <<key, value>> from the oldest entry to the newest.  Ghosts: clock    *)
(* counts the calls, stamp[key] is the time of the last successful get or  *)
(* the last set of the key, last is the last call.                         *)
(***************************************************************************)
MaxCapacity == 2
MaxCalls == 4

Keys == {"a", "b", "c"}

LRUCache(capacity) ==
  [cls |-> "LRUCache", capacity |-> capacity, cache |-> <<>>, clock |-> 0,
   stamp |-> [k \in Keys |-> 0], last |-> [op |-> "", key |-> "", ret |-> NoneV]]

\* key in self._cache
contains(cache, key) == \E i \in DOMAIN cache : cache[i][1] = key

\* self._cache[key] of a key that is present
getitem(cache, key) == cache[CHOOSE i \in DOMAIN cache : cache[i][1] = key][2]

\* del self._cache[key]
RECURSIVE delete(_, _)
delete(cache, key) ==
  IF cache = <<>> THEN <<>>
  ELSE IF Head(cache)[1] = key THEN Tail(cache)
  ELSE <<Head(cache)>> \o delete(Tail(cache), key)

\* self._cache.move_to_end(key)
move_to_end(cache, key) == Append(delete(cache, key), <<key, getitem(cache, key)>>)

\* popitem(last=True), which takes the newest entry.
popitem_newest(cache) == SubSeq(cache, 1, Len(cache) - 1)

\* self._cache.popitem(last=False)
popitem(cache) == Tail(cache)

\* self._cache[key] = value: a present key keeps its place.
setitem(cache, key, value) ==
  IF contains(cache, key)
  THEN [i \in DOMAIN cache |-> IF cache[i][1] = key THEN <<key, value>> ELSE cache[i]]
  ELSE Append(cache, <<key, value>>)

\* One more call has been made.
Called(c, op, key, ret) ==
  [c EXCEPT !.clock = @ + 1, !.last = [op |-> op, key |-> key, ret |-> ret]]

\* LRUCache.get
lru_get(key) ==
  LET c == objects[1] IN
  /\ c.clock < MaxCalls
  /\ objects' = [objects EXCEPT
                   ![1] = IF ~contains(c.cache, key) THEN Called(c, "get", key, NoneV)
                          ELSE [Called(c, "get", key, getitem(c.cache, key)) EXCEPT
                                  !.cache = move_to_end(@, key),
                                  !.stamp[key] = c.clock + 1]]
  /\ UNCHANGED threads
  /\ UNCHANGED interpreter

\* LRUCache.set
lru_set(key, value) ==
  LET c == objects[1]
      kept == IF contains(c.cache, key) THEN move_to_end(c.cache, key)
              ELSE IF Len(c.cache) >= c.capacity THEN popitem(c.cache)
              ELSE c.cache IN
  /\ c.clock < MaxCalls
  /\ objects' = [objects EXCEPT
                   ![1] = [Called(c, "set", key, NoneV) EXCEPT
                             !.cache = setitem(kept, key, value),
                             !.stamp[key] = c.clock + 1]]
  /\ UNCHANGED threads
  /\ UNCHANGED interpreter

\* LRUCache.remove
lru_remove(key) ==
  LET c == objects[1] IN
  /\ c.clock < MaxCalls
  /\ objects' = [objects EXCEPT
                   ![1] = IF contains(c.cache, key)
                          THEN [Called(c, "remove", key, BoolV(TRUE)) EXCEPT
                                  !.cache = delete(@, key)]
                          ELSE Called(c, "remove", key, BoolV(FALSE))]
  /\ UNCHANGED threads
  /\ UNCHANGED interpreter

\* LRUCache.clear
lru_clear ==
  LET c == objects[1] IN
  /\ c.clock < MaxCalls
  /\ objects' = [objects EXCEPT ![1] = [Called(c, "clear", "", NoneV) EXCEPT !.cache = <<>>]]
  /\ UNCHANGED threads
  /\ UNCHANGED interpreter

InitCache ==
  /\ NewInterpreter
  /\ ast_node = NoNode
  /\ objects \in {<<LRUCache(capacity)>> : capacity \in 1..MaxCapacity}
  /\ threads = <<>>

NextCache ==
  \/ \E key \in Keys : lru_get(key)
  \/ \E key \in Keys, value \in 1..2 : lru_set(key, IntV(value))
  \/ \E key \in Keys : lru_remove(key)
  \/ lru_clear

SpecCache == InitCache /\ [][NextCache]_vars

(***************************************************************************)
(* riftserver: RiftServer in watch mode.  objects[1] is the server,        *)
(* objects[2] the script file: [mtime, content, version], content telling  *)
(* what becomes of the script ("ok", "parse error" or "runtime error")     *)
(* and version (ghost) counting its changes.  An interpreter is named by   *)
(* the version of the script it was made for.  Ghosts of the server: good, *)
(* the interpreter of the last successful load, attempts, the number of    *)
(* load_script calls, and last, what the last poll did.                    *)
(***************************************************************************)
MaxChanges == 4

Contents == {"ok", "parse error", "runtime error"}

ScriptFile(content) == [cls |-> "file", mtime |-> 1, content |-> content, version |-> 1]

RiftServer ==
  [cls |-> "RiftServer", running |-> FALSE, interpreter |-> 0, script_path |-> "",
   last_modified |-> 0, good |-> 0, attempts |-> 0, last |-> ""]

\* self.interpreter after load_script: parse comes before
\* `self.interpreter = Interpreter()`, execute after it.
installed(server, file) ==
  IF file.content = "parse error" THEN server.interpreter ELSE file.version

\* load_script of a file that exists: the server afterwards.
load_script(server, file) ==
  [server EXCEPT !.script_path = "path",
                 !.last_modified = file.mtime,
                 !.interpreter = installed(server, file),
                 !.good = IF file.content = "ok" THEN file.version ELSE @,
                 !.attempts = @ + 1,
                 !.last = IF file.content = "ok" THEN "Reload successful"
                          ELSE "Reload failed, using previous version"]

\* RiftServer.start in watch mode with one worker, up to _watch_loop; it
\* returns when the first load fails.
server_start ==
  LET loaded == load_script(objects[1], objects[2]) IN
  /\ objects[1].attempts = 0
  /\ objects' = [objects EXCEPT
                   ![1] = [loaded EXCEPT !.running = objects[2].content = "ok",
                                         !.last = "start"]]
  /\ UNCHANGED threads
  /\ UNCHANGED interpreter

\* One turn of _watch_loop.
watch_loop ==
  LET server == objects[1]
      file == objects[2] IN
  /\ server.running
  /\ objects' = [objects EXCEPT
                   ![1] = IF file.mtime > server.last_modified
                          THEN load_script(server, file)
                          ELSE [server EXCEPT !.last = "unchanged"]]
  /\ UNCHANGED threads
  /\ UNCHANGED interpreter

\* _handle_shutdown.
handle_shutdown ==
  /\ objects[1].running
  /\ objects' = [objects EXCEPT ![1].running = FALSE, ![1].last = "shutdown"]
  /\ UNCHANGED threads
  /\ UNCHANGED interpreter

\* Somebody saves the script.
save(content) ==
  /\ objects[2].version <= MaxChanges
  /\ objects' = [objects EXCEPT ![2].mtime = @ + 1, ![2].version = @ + 1,
                                ![2].content = content]
  /\ UNCHANGED threads
  /\ UNCHANGED interpreter

InitServer ==
  /\ NewInterpreter
  /\ ast_node = NoNode
  /\ objects \in {<<RiftServer, ScriptFile(content)>> : content \in Contents}
  /\ threads = <<>>

NextServer ==
  \/ server_start
  \/ watch_loop
  \/ handle_shutdown
  \/ \E content \in Contents : save(content)

SpecServer == InitServer /\ [][NextServer]_vars

(***************************************************************************)
(* The evaluator and the host threads of the library.  emitAsync           *)
(* (stdlib/events_lib.py) starts a thread that runs emit, and emit calls   *)
(* the listener through the same Interpreter object (interpreter._call),   *)
(* so _call_lambda switches and restores self.current_env on that thread   *)
(* while the program goes on.  The emitter has one listener, the lambda    *)
(* bound to g, whose body is a host call (sleep).                          *)
(***************************************************************************)
\* let x = em.emitAsync("go"): EventEmitter.emitAsync starts the thread and
\* returns None.
emitAsync ==
  /\ CanRun
  /\ Len(threads) < MaxThreads
  /\ LET callee == Identifier(envs, current_env, "g") IN
       /\ callee.exc = NoExc
       /\ callee.value.t = "RiftLambda"
       /\ threads' = Append(threads, Thread("emit", 0, callee.value.v))
  /\ envs' = Declare(envs, current_env, "x", NoneV, "let")
  /\ stack' = Declared(Note(stack, NoExpr), {"x"})
  /\ result' = NoneV
  /\ hist' = Hist("emitAsync")
  /\ steps' = steps + 1
  /\ UNCHANGED <<current_env, functions, exc, ast_node, modules, loads, objects>>

\* emit on its thread, up to the body of the listener: _call_lambda makes
\* the scope of the call, binds the parameter, keeps self.current_env in
\* its local prev_env and switches to the scope of the call.
call_lambda(t) ==
  /\ t \in DOMAIN threads
  /\ threads[t].target = "emit"
  /\ threads[t].pc = "begin"
  /\ LET func == functions[threads[t].arg]
         E1 == call_scope(envs, func, current_env)
         env == Len(E1)
         b == bind_parameters(E1, current_env, env, func, <<>>)
     IN /\ b.exc = NoExc
        /\ envs' = b.envs
        /\ current_env' = env
        /\ threads' = [threads EXCEPT ![t].pc = "body", ![t].tmp = current_env]
  /\ UNCHANGED <<functions, stack, exc, result, steps, hist, ast_node, modules, loads,
                 objects>>

\* The body has returned on the thread: the finally clause of _call_lambda
\* assigns the prev_env it kept.
lambda_return(t) ==
  /\ t \in DOMAIN threads
  /\ threads[t].target = "emit"
  /\ threads[t].pc = "body"
  /\ current_env' = threads[t].tmp
  /\ threads' = [threads EXCEPT ![t].pc = "done"]
  /\ UNCHANGED <<envs, functions, stack, exc, result, steps, hist, ast_node, modules,
                 loads, objects>>

NextScope ==
  \/ eval_Lambda("")
  \/ eval_FunctionDeclaration("")
  \/ eval_Call("f", 0, 1)
  \/ emitAsync
  \/ eval_FailStatement
  \/ eval_GiveStatement(IntV(1))
  \/ BlockDone
  \/ Unwind
  \/ \E t \in DOMAIN threads : call_lambda(t)
  \/ \E t \in DOMAIN threads : lambda_return(t)

SpecScope == Init /\ [][NextScope]_vars

\* The whole vocabulary.
Next == NextAssign \/ NextBlocks \/ NextCalls \/ NextTry \/ NextRepeat

Spec == Init /\ [][Next]_vars

(***************************************************************************)
(* Claims.                                                                 *)
(***************************************************************************)
\* C1 (as stated): every assignment, plain or compound, whose nearest
\* binding of the target was declared with let or const fails with an
\* AssignmentError and leaves every binding of every scope as it was.
C1_AssignErrorAlways ==
  [][(hist'.op = "Assignment" /\ hist'.imm)
       => (exc' = RiftError("AssignmentError") /\ envs' = envs)]_vars

\* C2 (as stated): when a nested block (if, while, repeat, check, try
\* body) or a call has finished, no variable declared inside it that was
\* not visible before it is visible.
C2_InnerInvisibleAfter ==
  hist.op = "exit" => \A n \in hist.names : ~has(envs, current_env, n)

\* The frame of the innermost call that is being evaluated.
InnermostCall == stack[CHOOSE k \in DOMAIN stack :
                         /\ stack[k].kind \in CallKinds
                         /\ \A j \in DOMAIN stack :
                              stack[j].kind \in CallKinds => j <= k]

InCall == \E k \in DOMAIN stack : stack[k].kind \in CallKinds

\* The scopes of the body of a call: from scope id up to the call's scope.
RECURSIVE BodyScopes(_, _)
BodyScopes(id, top) ==
  IF id = 0 THEN {}
  ELSE IF id = top THEN {id}
  ELSE {id} \cup BodyScopes(envs[id].parent, top)

FreeInBody(name, c) == \A id \in BodyScopes(current_env, c.env) : ~Bound(envs, id, name)

\* C3: the scope of every call being evaluated is a child of the scope its
\* function, lambda or method captured, is the scope of no other handler
\* and holds the parameter, and a name
\* read in the body that no scope of the body binds resolves as it does
\* from the captured scope.
C3_LexicalScope ==
  /\ \A k \in DOMAIN stack :
        stack[k].kind \in CallKinds =>
          /\ envs[stack[k].env].parent = functions[stack[k].fn].closure
          /\ Bound(envs, stack[k].env, "p")
          /\ \A j \in DOMAIN stack : j # k => stack[j].env # stack[k].env
  /\ (hist.op = "Identifier" /\ InCall) =>
        LET c == InnermostCall
            d == get(envs, functions[c.fn].closure, "x")
        IN FreeInBody("x", c) =>
             IF d.ok THEN exc = NoExc /\ result = d.value
             ELSE exc = RiftError("NameError")

\* C3 witness: a body has read x, which no scope of the body binds and
\* which the caller's scope and the captured scope resolve differently.
C3_Witness ==
  /\ hist.op = "Identifier" /\ InCall
  /\ FreeInBody("x", InnermostCall)
  /\ get(envs, InnermostCall.prev_env, "x")
       # get(envs, functions[InnermostCall.fn].closure, "x")

\* What distinguishes the handlers below the top of the stack.
Core(f) ==
  [kind |-> f.kind, phase |-> f.phase, env |-> f.env, prev_env |-> f.prev_env,
   items |-> f.items, index |-> f.index, res |-> f.res, pending |-> f.pending,
   fn |-> f.fn]

SameBelow(n) == Len(stack') >= n /\ \A j \in 1..n : Core(stack'[j]) = Core(stack[j])

\* The exception leaves the handler on top of the stack, directly or held
\* by its finally clause while the finally block is evaluated.
PassesOn ==
  LET f == Top(stack) n == Len(stack) IN
  \/ exc' = exc /\ Len(stack') = n - 1 /\ SameBelow(n - 1)
  \/ /\ f.kind = "try" /\ f.fin /\ f.phase # "finally"
     /\ exc' = NoExc /\ Len(stack') = n /\ SameBelow(n - 1)
     /\ Top(stack').phase = "finally" /\ Top(stack').pending = exc

\* C4: a signal that comes out of a try block makes no catch scope and
\* starts no catch block, it passes on (through the finally block if there
\* is one); and when a finally block that holds a signal ends, the signal
\* is raised again.
C4_SignalsSkipCatch ==
  [][/\ (IsSignal(exc) /\ stack # <<>> /\ Top(stack).kind = "try"
           /\ Top(stack).phase = "try")
          => envs' = envs /\ current_env' = current_env /\ PassesOn
     /\ (exc = NoExc /\ stack # <<>> /\ Top(stack).kind = "try"
           /\ Top(stack).phase = "finally" /\ IsSignal(Top(stack).pending)
           /\ Len(stack') < Len(stack))
          => exc' = Top(stack).pending
     /\ \A k \in DOMAIN stack' :
          IsSignal(stack'[k].thrown) => stack'[k].ran \in {<<"try">>, <<"try", "finally">>}
    ]_vars

\* C4 witness: a try statement with a catch block and a finally block has
\* been left by the signal that came out of its try block.
C4_Witness ==
  /\ hist.op = "exit" /\ hist.kind = "try" /\ hist.catch /\ hist.fin
  /\ IsSignal(hist.thrown) /\ exc = hist.thrown
  /\ hist.ran = <<"try", "finally">>

\* C5 (as stated): when a failure has come out of the try block of a try
\* statement without catch block, the statement (after its finally block,
\* if any, has ended) is left by that failure.
C5_UncaughtPropagates ==
  (/\ hist.op = "exit" /\ hist.kind = "try" /\ ~hist.catch
   /\ hist.thrown.kind \in {"RiftError", "HostError"}
   /\ hist.how \in {"done", "reraise"})
    => exc = hist.thrown

\* C6: when a try statement with a finally block is left, its finally
\* block has been evaluated once, after the try block and (if it was
\* entered) the catch block.
C6_FinallyOnce ==
  (hist.op = "exit" /\ hist.kind = "try" /\ hist.fin)
    => hist.ran \in {<<"try", "finally">>, <<"try", "catch", "finally">>}

\* C6 witness: a try statement has been left by the failure raised in its
\* catch block, after its finally block.
C6_Witness ==
  /\ hist.op = "exit" /\ hist.kind = "try" /\ hist.fin
  /\ hist.ran = <<"try", "catch", "finally">>
  /\ hist.how = "reraise" /\ exc.kind = "RiftError"

\* C7: BreakSignal and ContinueSignal are consumed by the innermost loop
\* and ReturnSignal by the innermost call, every other handler passes them
\* on: stop ends that loop alone, next goes to its next iteration (or ends
\* it when there is none), give ends that call with the value it carries,
\* and the handlers below are as they were.
C7_NearestConstruct ==
  [][(IsSignal(exc) /\ stack # <<>>) =>
       LET f == Top(stack) n == Len(stack) IN
       CASE exc = BreakSignal /\ f.kind \in LoopKinds ->
              /\ exc' = NoExc /\ Len(stack') = n - 1 /\ SameBelow(n - 1)
              /\ envs' = envs
              /\ current_env' = IF f.kind = "repeat" THEN f.prev_env ELSE current_env
         [] exc = ContinueSignal /\ f.kind \in LoopKinds ->
              /\ exc' = NoExc /\ SameBelow(n - 1)
              /\ \/ /\ Len(stack') = n
                    /\ Top(stack').kind = f.kind /\ Top(stack').env = f.env
                    /\ current_env' = current_env
                    /\ f.kind = "repeat" => Top(stack').items = Tail(f.items)
                 \/ /\ Len(stack') = n - 1
                    /\ f.kind = "repeat" => Len(f.items) = 1
         [] exc.kind = "ReturnSignal" /\ f.kind \in CallKinds ->
              /\ exc' = NoExc /\ result' = exc.value
              /\ Len(stack') = n - 1 /\ SameBelow(n - 1)
              /\ envs' = envs /\ current_env' = f.prev_env
         [] OTHER -> PassesOn
    ]_vars

\* C7 witness: a loop has consumed a stop while an enclosing loop is still
\* being evaluated.
C7_Witness ==
  /\ hist.op = "exit" /\ hist.kind \in LoopKinds /\ hist.how = "caught"
  /\ exc = NoExc
  /\ stack # <<>> /\ Top(stack).kind \in LoopKinds

\* C8 (as stated): when the body of a function ends without a give and its
\* last statement is an expression statement, that expression has been
\* evaluated once in the call.
C8_LastExpressionOnce ==
  (/\ hist.op = "exit" /\ hist.kind = "function" /\ hist.how = "done"
   /\ hist.last.node # "")
    => hist.last.n = 1

\* C9 (as stated): a call without argument binds the parameter to the value
\* its default has in the captured scope (a NameError when it has none
\* there), and to none when the parameter has no default.
C9_DefaultInCapturedScope ==
  (hist.op = "Call" /\ hist.fn # 0 /\ hist.last.nargs = 0) =>
    LET func == functions[hist.fn]
        d == get(envs, func.closure, func.default)
    IN IF func.default = ""
       THEN exc = NoExc /\ envs[hist.env].variables["p"] = NoneV
       ELSE IF d.ok
       THEN exc = NoExc /\ envs[hist.env].variables["p"] = d.value
       ELSE exc = RiftError("NameError")

\* C10 (as stated): the closure of a lambda made in a repeat body keeps
\* seeing the element of the iteration it was made in.
C10_OwnElement ==
  \A k \in DOMAIN functions :
    (/\ envs[functions[k].closure].name = "repeat"
     /\ envs[functions[k].closure].declared["x"] = "bind")
      => get(envs, functions[k].closure, "x") = functions[k].seen

\* C11: a successful assignment to x, made by the creator of a closure or
\* inside the body of a call, stores the value in the one scope that holds
\* the binding, no scope is copied, and every function, lambda and scope
\* that reached that binding before the assignment reads the new value
\* after it; a read of x in a body that does not bind it returns what the
\* captured scope holds now.
C11_SharedByReference ==
  [][/\ (hist'.op = "Assignment" /\ exc' = NoExc) =>
          LET at == Resolve(envs, current_env, "x") IN
          /\ Len(envs') = Len(envs)
          /\ envs'[at].variables["x"] = result'
          /\ \A k \in DOMAIN functions :
               Resolve(envs, functions[k].closure, "x") = at
                 => get(envs', functions[k].closure, "x") = [ok |-> TRUE, value |-> result']
          /\ \A id \in DOMAIN envs :
               Resolve(envs, id, "x") = at
                 => get(envs', id, "x") = [ok |-> TRUE, value |-> result']
     /\ (hist'.op = "Identifier" /\ exc' = NoExc /\ stack # <<>>
           /\ Top(stack).kind \in CallKinds /\ ~Bound(envs, current_env, "x"))
          => result' = envs[Resolve(envs, functions[Top(stack).fn].closure, "x")].variables["x"]
    ]_vars

\* C11 witness: an assignment in the body of a call has changed the x of
\* the captured scope, which is not what the function saw when it was made.
C11_Witness ==
  /\ hist.op = "Assignment" /\ exc = NoExc
  /\ InCall /\ FreeInBody("x", InnermostCall)
  /\ LET func == functions[InnermostCall.fn] IN
       /\ func.seen.ok
       /\ get(envs, func.closure, "x") = [ok |-> TRUE, value |-> result]
       /\ result # func.seen.value
       /\ get(envs, InnermostCall.prev_env, "x") = [ok |-> TRUE, value |-> result]

\* The binding of name made by the pattern of a case, if any.
BindingOf(bindings, name) == {b[2] : b \in {c \in bindings : c[1] = name}}

\* What the claim expects of the check statement `stmt` evaluated in scope
\* cur (state E, cur, stk, x, res; h is the record of the step).
CheckAsClaimed(stmt, E, cur, stk, x, res, h) ==
  LET cases == stmt.cases
      M(i) == match_pattern(E, h.env, cases[i].pattern, stmt.value)
      HasGuard(i) == cases[i].guard.node # ""
      \* the value of the guard of case i with the bindings of its pattern
      \* in scope; {} when its name is bound nowhere
      GuardValues(i) ==
        IF cases[i].guard.node = "Literal" THEN {cases[i].guard.value}
        ELSE IF BindingOf(M(i).bindings, cases[i].guard.name) # {}
        THEN BindingOf(M(i).bindings, cases[i].guard.name)
        ELSE IF has(E, h.env, cases[i].guard.name)
        THEN {get(E, h.env, cases[i].guard.name).value}
        ELSE {}
      Selected(i) ==
        /\ M(i).matched
        /\ HasGuard(i) => \E v \in GuardValues(i) : is_truthy(v)
      Raises(i) == M(i).matched /\ HasGuard(i) /\ GuardValues(i) = {}
      Sel == {i \in DOMAIN cases : Selected(i)}
      first == CHOOSE i \in Sel : \A j \in Sel : i <= j
      last == IF Sel = {} THEN Len(cases) ELSE first
  IN (h.op = "CheckStatement" /\ x = NoExc /\ \A i \in 1..last : ~Raises(i)) =>
       /\ h.tried = [i \in 1..last |-> i]
       /\ \A i \in DOMAIN cases :
            (\E k \in DOMAIN h.guards : h.guards[k] = i)
              <=> (i <= last /\ M(i).matched /\ HasGuard(i))
       /\ IF Sel = {}
          THEN h.sel = 0 /\ res = NoneV /\ cur = h.env
          ELSE /\ h.sel = first
               /\ stk # <<>> /\ Top(stk).kind = "check" /\ Top(stk).env = cur
               /\ E[cur].parent = h.env
               /\ DOMAIN E[cur].variables = {b[1] : b \in M(first).bindings}
               /\ \A b \in M(first).bindings :
                    E[cur].variables[b[1]] = b[2] /\ b[1] \in E[cur].immutables

RECURSIVE MatchesAsClaimed(_, _)
MatchesAsClaimed(src, value) ==
  CASE src.text = "list" ->
         /\ value.t = "list"
         /\ Len(src.elements) = Len(value.v)
         /\ \A i \in DOMAIN src.elements : MatchesAsClaimed(src.elements[i], value.v[i])
    [] IsNumeral(src.text) -> PyEq(IntV(Numeral(src.text)), value)
    [] OTHER -> TRUE

\* The names it binds for guard and body.
RECURSIVE NamesAsClaimed(_)
NamesAsClaimed(src) ==
  CASE src.text = "list" -> UNION {NamesAsClaimed(src.elements[i]) : i \in DOMAIN src.elements}
    [] src.text = "_" \/ IsNumeral(src.text) -> {}
    [] OTHER -> {src.text}

\* C13 (as stated): a list pattern selects its case iff the value is a
\* list of the same length whose elements match the sub-patterns at their
\* positions (`_` and a name match anything, a number what equals it, a
\* nested list likewise), and the body then starts with the names of the
\* pattern bound.
C13_ListPattern ==
  hist.op = "CheckStatement" =>
    /\ exc = NoExc
    /\ (hist.sel = 1) <=> MatchesAsClaimed(ast_node.source, ast_node.value)
    /\ hist.sel = 1 =>
         \A n \in NamesAsClaimed(ast_node.source) : Bound(envs, current_env, n)

\* C14: a call-shaped pipeline stage m(args) yields value.m(args) when the
\* piped value has the callable member m (an accessor of a text or a list,
\* or a method of an instance, inherited ones included); only when it has
\* none and m is in scope does it yield m(args..., value); when neither
\* exists it fails with a NameError.
MembersAsClaimed(node) ==
  CASE node.value.t = "text" -> {"upper", "startsWith"}
    [] node.value.t = "list" -> {"pop"}
    [] node.value.t = "RiftInstance" ->
         {n \in StageNames : get_method(node.classes, node.instance, n).ok}
    [] OTHER -> {}

C14_StageResolution ==
  hist.op = "Pipeline" =>
    IF ast_node.stage \in MembersAsClaimed(ast_node)
    THEN hist.how = "member" /\ hist.args = ast_node.arguments
    ELSE IF has(envs, hist.env, ast_node.stage)
    THEN hist.how = "function" /\ hist.args = Append(ast_node.arguments, ast_node.value)
    ELSE hist.how = "neither" /\ exc = RiftError("NameError")

\* C15: `~>` is one token, the asynchronous pipeline operator, and a source
\* written with `~>` parses to the pipeline that the same source written
\* with `->` parses to, marked asynchronous.
Sync(src) == [i \in 1..Len(src) |-> IF src[i] = "~" THEN "-" ELSE src[i]]

C15_AsyncPipeline ==
  hist.op = "parse" =>
    LET src == ast_node.source
        sync == parse_source(Sync(src))
    IN (/\ \E i \in 1..Len(src) : src[i] = "~"
        /\ sync.ok /\ Len(sync.body) = 1 /\ sync.body[1].node = "Pipeline")
       => /\ exc = NoExc
          /\ ast_node.body = <<[sync.body[1] EXCEPT !.async_ = TRUE]>>

\* The classes from c upwards, nearest first, and the first of them whose
\* dict `field` has `name` (0: none).
RECURSIVE Chain(_, _)
Chain(classes, c) == IF c = 0 THEN <<>> ELSE <<c>> \o Chain(classes, classes[c].parent)

Nearest(classes, chain, field, name) ==
  LET hits == {i \in DOMAIN chain : name \in DOMAIN classes[chain[i]][field]} IN
  IF hits = {} THEN 0 ELSE chain[CHOOSE i \in hits : \A j \in hits : i <= j]

\* What o.name is to give when properties are looked up in the own state
\* only (inherited = FALSE) or also in the defaults of the ancestors
\* (inherited = TRUE), and methods after them: [exc, value].
MemberAsClaimed(node, inherited) ==
  LET classes == node.classes
      inst == node.instance
      name == node.property
      a == Nearest(classes, Chain(classes, classes[inst.class].parent), "properties", name)
      c == Nearest(classes, Chain(classes, inst.class), "methods", name)
  IN IF name \in DOMAIN inst.properties
     THEN [exc |-> NoExc, value |-> inst.properties[name]]
     ELSE IF inherited /\ a # 0
     THEN [exc |-> NoExc, value |-> classes[a].properties[name]]
     ELSE IF c # 0
     THEN [exc |-> NoExc, value |-> BoundMethodV(1, classes[c].methods[name].v)]
     ELSE [exc |-> RiftError("NameError"), value |-> NoneV]

AccessGives(m) ==
  hist.op = "MemberAccess" => exc = m.exc /\ (m.exc = NoExc => result = m.value)

\* The call of a bound method has started: its body runs in a scope where
\* `me` is the instance, and it is the body of the nearest method.
BoundCall == hist.op = "Call" /\ hist.kind = "method" /\ exc = NoExc

MeIsTheInstance ==
  BoundCall =>
    /\ get(envs, current_env, "me") = [ok |-> TRUE, value |-> InstanceV(1)]
    /\ LET classes == ast_node.classes
           c == Nearest(classes, Chain(classes, ast_node.instance.class), "methods",
                        ast_node.property)
       IN c # 0 /\ FuncV(Top(stack).fn) = classes[c].methods[ast_node.property]

\* C16 (as stated): member access on an instance returns the own property
\* of that name if present; otherwise the method of that name of the
\* nearest class of the chain that starts at the instance's class, as a
\* bound method whose call runs with `me` bound to the instance; otherwise
\* it fails with a NameError.
C16_OwnPropertyThenMethod == AccessGives(MemberAsClaimed(ast_node, FALSE)) /\ MeIsTheInstance

\* C16 (amended): as above, but between the own state and the methods comes
\* the default of the property in the nearest proper ancestor class that
\* declares it.
C16_PropertyThenMethod == AccessGives(MemberAsClaimed(ast_node, TRUE)) /\ MeIsTheInstance

\* An instance of B calls a method that only A declares.
C16_Witness ==
  /\ BoundCall
  /\ ast_node.instance.class = 2
  /\ ast_node.property \notin DOMAIN ast_node.classes[2].methods
  /\ ast_node.property \in DOMAIN ast_node.classes[1].methods

\* C17: for a list or a text of length n and an integer index i, the
\* non-safe index access succeeds exactly when 0 <= i < n and fails for
\* every other i, negative ones included; the safe form returns none
\* exactly for the indices on which the non-safe form fails.
InRange(node) == 0 <= node.index /\ node.index < Len(node.object.v)

C17_IndexRange ==
  hist.op = "IndexAccess" =>
    IF ast_node.safe
    THEN exc = NoExc /\ (result = NoneV <=> ~InRange(ast_node))
    ELSE exc = NoExc <=> InRange(ast_node)

\* C18: t op= e is t = t op e as the binary operator evaluates it: the
\* same value wherever the binary operator gives one (text concatenation
\* with promotion included), the same kind of error where it fails (the
\* DivisionByZeroError for a zero right-hand side of /=), and a target
\* left unchanged by a failure.
C18_CompoundAsBinary ==
  hist.op = "Assignment" =>
    LET b == BinaryOp(ast_node.operator, ast_node.old, ast_node.value)
        t == get(envs, 1, ast_node.target).value
    IN IF b.exc = NoExc THEN exc = NoExc /\ t = b.value /\ result = b.value
       ELSE exc = b.exc /\ t = ast_node.old

\* C19: a host function called with the wrong number of arguments fails
\* with an ArgumentError, a RIFT error, which the runner reports as a
\* language error and never as an internal error.
Arity(name) == CASE name = "startsWith" -> 2 [] name = "len" -> 1 [] name = "abs" -> 1

C19_ArityIsArgumentError ==
  (hist.op = "Call" /\ hist.kind = "host"
     /\ Len(ast_node.arguments) # Arity(ast_node.callee))
    => exc = RiftError("ArgumentError") /\ run_file(exc) = "Error"

\* C20: over any sequence of import statements in one interpreter the
\* loader runs at most once for a module name, and whatever an import of
\* that name binds, in the namespace, selected-item or wildcard form, comes
\* from the one mapping that the cache holds for the name.
Cached(id) == \E n \in DOMAIN modules : modules[n].id = id /\ modules[n].name = n

C20_LoadedOnce ==
  /\ \A i, j \in DOMAIN loads : loads[i] = loads[j] => i = j
  /\ \A e \in DOMAIN envs : \A n \in DOMAIN envs[e].variables :
       LET value == envs[e].variables[n] IN
       /\ value.t = "map" => Cached(value.v)
       /\ value.t = "export" => Cached(value.v[1])

\* A module imported before is imported again, and two names are bound to
\* values of its mapping.
C20_Witness ==
  /\ hist.op = "ImportStatement" /\ hist.how = "cached" /\ exc = NoExc
  /\ \E a, b \in DOMAIN envs[1].variables :
       /\ a # b
       /\ envs[1].variables[a].t = "map" /\ envs[1].variables[b].t = "export"
       /\ envs[1].variables[b].v[1] = envs[1].variables[a].v

\* C21: an import of a module name that is no standard module and no user
\* module fails with an ImportError and binds nothing in the current
\* scope, and an import of an item that the module does not export fails
\* with an ImportError.
Registered(name) == name \in {"math", "json"}

C21_UnknownImport ==
  [][(hist'.op = "ImportStatement" /\ steps' = steps + 1) =>
       LET name == CHOOSE n \in hist'.names : TRUE
           item == hist'.args[1]
           exported == {Exports(name)[i] : i \in 1..Len(Exports(name))}
       IN /\ ~Registered(name) => exc' = RiftError("ImportError") /\ envs' = envs
          /\ (item # "" /\ item \notin exported) => exc' = RiftError("ImportError")]_vars

\* C22: a call of a generator function returns a generator, which hands
\* out the yielded values one per request, and a YieldSignal never leaves
\* the call of a generator function: not to the caller, to an enclosing
\* loop or to the top level.
GeneratorCallEnds ==
  hist.op = "exit" /\ hist.kind = "function" /\ functions[hist.fn].is_generator

C22_YieldStaysInside ==
  GeneratorCallEnds => exc.kind # "YieldSignal" /\ (exc = NoExc => result.t = "RiftGenerator")

\* C23: a promise settles at most once (pending to fulfilled or pending to
\* rejected, later resolve and reject calls changing nothing), and await_
\* returns the value the promise was fulfilled with, or raises for a
\* rejected promise.
Awaited(t) == threads[t].target = "await_" /\ threads[t].pc = "done"

SettledWith(p, ret) ==
  \/ p.state = "fulfilled" /\ ret \in Settled
  \/ p.state = "rejected" /\ ret.t = "Exception"

C23_SettlesOnce ==
  /\ [][LET p == objects[1] IN
        p.state # "pending" =>
          /\ objects'[1].state = p.state
          /\ p.lock = 0 => objects'[1].value = p.value /\ objects'[1].error = p.error]_vars
  /\ [](\A t \in DOMAIN threads : Awaited(t) => SettledWith(objects[1], threads[t].ret))

\* C24: once all() has been called and every input promise is fulfilled,
\* the promise it returned is eventually fulfilled, with the list of the
\* inputs' values in input order, whatever the interleaving of the
\* callback threads; and it is eventually rejected if an input is rejected.
AllPromise == IF AllCall = 0 THEN RiftPromise ELSE objects[objects[AllCall].promise]

InputValues == [i \in 1..Cardinality(Inputs) |-> objects[i].value]

C24_AllFulfils ==
  /\ [](AllCall # 0 /\ AllPromise.state = "fulfilled" /\ AllPromise.lock = 0
          => AllPromise.value = ListV(InputValues))
  /\ (AllCall # 0 /\ \A p \in Inputs : objects[p].state = "fulfilled" /\ objects[p].lock = 0)
       ~> (AllPromise.state = "fulfilled")
  /\ (AllCall # 0 /\ \E p \in Inputs : objects[p].state = "rejected")
       ~> (AllPromise.state = "rejected")

\* C25: lock() on an unlocked mutex is fulfilled at once and sets isLocked;
\* lock() on a locked mutex stays pending until an unlock() hands the mutex
\* to it, the waiters being served in the order of their calls; at most
\* one lock() promise is fulfilled and not yet unlocked; and isLocked is
\* false only when there is no holder and no waiter.
Waiters == {p \in DOMAIN objects : IsPromise(p) /\ objects[p].state = "pending"}

C25_MutualExclusion ==
  /\ [](Cardinality(Holders) <= 1)
  /\ [](~objects[1].locked => Holders = {} /\ Waiters = {})
  /\ [](\A p \in Waiters, q \in DOMAIN objects :
          (IsPromise(q) /\ objects[q].state = "fulfilled") => q < p)
  /\ [][\A p \in DOMAIN objects' \ {1} :
          LET was == IF p \in DOMAIN objects THEN objects[p].state ELSE "none"
              last == objects'[1].last IN
          /\ (was = "none" /\ ~objects[1].locked)
               => objects'[p].state = "fulfilled" /\ objects'[1].locked
          /\ (was = "none" /\ objects[1].locked) => objects'[p].state = "pending"
          /\ (was = "pending" /\ objects'[p].state = "fulfilled")
               => last = [op |-> "unlock", promise |-> p] /\ objects'[1].locked]_vars

\* A waiter has been handed the mutex by an unlock() while another waits.
C25_Witness ==
  /\ objects[1].last.op = "unlock" /\ objects[1].last.promise # 0
  /\ Cardinality(Holders) = 1 /\ Waiters # {} /\ objects[1].released # {}

\* C26: a listener registered with once() is invoked on the first emit of
\* its event after the registration and on no later emit, whatever the
\* sequence of on, once, off and emit calls, an emit made from inside a
\* listener while the first emit is still being delivered included.
C26_OnceIsOnce ==
  \A reg \in DOMAIN objects[1].calls : objects[1].calls[reg].once => objects[1].calls[reg].n <= 1

\* C27: the size of an LRU cache of capacity c >= 1 never exceeds c, and a
\* set of a new key on a full cache evicts exactly the key whose last
\* successful get or set is the oldest, and keeps all the others.
Present(c) == {c.cache[i][1] : i \in DOMAIN c.cache}

LeastRecent(c) ==
  CHOOSE k \in Present(c) : \A other \in Present(c) : c.stamp[k] <= c.stamp[other]

C27_EvictsLeastRecent ==
  /\ [](Len(objects[1].cache) <= objects[1].capacity)
  /\ [][LET c == objects[1]
            d == objects'[1] IN
        (d.last.op = "set" /\ d.clock = c.clock + 1 /\ d.last.key \notin Present(c)
           /\ Len(c.cache) = c.capacity)
          => Present(d) = (Present(c) \ {LeastRecent(c)}) \cup {d.last.key}]_vars

\* A full cache of capacity two whose older entry was touched by get has
\* evicted the other one for a new key.
C27_Witness ==
  LET c == objects[1] IN
  /\ c.capacity = 2 /\ c.last.op = "set" /\ c.clock = 4
  /\ Present(c) = {"a", "c"} /\ c.stamp["a"] = 3 /\ c.stamp["b"] = 2 /\ c.stamp["c"] = 4

\* C28: in watch mode a poll that finds the script's modification time
\* changed makes exactly one reload attempt (and a poll that finds it
\* unchanged none), and after a failed reload, be it a parse error or a
\* runtime failure of the changed script, the active interpreter is still
\* the one of the last successful load.
C28_KeepsPreviousVersion ==
  /\ [](objects[1].running => objects[1].interpreter = objects[1].good)
  /\ [][(objects[1].running /\ objects'[1].running /\ objects'[1] # objects[1]) =>
          objects'[1].attempts =
            objects[1].attempts +
              (IF objects[2].mtime # objects[1].last_modified THEN 1 ELSE 0)]_vars

\* C29: every construct that switches the current scope restores it, on
\* normal exit, on failure and on signal alike, so whenever the evaluator
\* is in no construct (between the statements of the program, and after
\* execute has returned or raised) current_env is the global scope.
C29_ScopeRestored == stack = <<>> => current_env = 1

\* C30: the mutability of a binding is that of the latest declaration of
\* its name in its scope: in every scope that binds x, set(x, v) succeeds
\* iff the latest declaration of x in that scope was `mut`.
C30_LatestDeclarationDecides ==
  \A id \in DOMAIN envs :
    Bound(envs, id, "x") =>
      ((set(envs, id, "x", IntV(3)).err = "") <=> (envs[id].declared["x"] = "mut"))

====
